---- MODULE Spec2Model ----
(***************************************************************************)
(* Verification model of the panamax synchronisation engine.               *)
(*                                                                         *)
(*   SpecDl : the Downloader (src/src/download.rs), one destination path   *)
(*            and its sidecars, one_download decomposed into the steps     *)
(*            at which the filesystem is observable.                       *)
(*   Spec   : the package sync run (mirror.rs sync_crates, crates_index.rs *)
(*            sync_crates_repo, crates.rs sync_crates_files) together with *)
(*            the repair run of verify.rs, over a small index.             *)
(*                                                                         *)
(* A destination sees any number of download calls, one after another.     *)
(* File contents are sequences of small integers.  The filesystem itself   *)
(* is assumed not to fail (no Io error is injected); the network and the   *)
(* origin are adversarial.                                                 *)
(***************************************************************************)
EXTENDS Integers, Sequences, FiniteSets, TLC

\* ------------------------------------------------------------------ bounds
MaxBody == 1
MaxRetries == 1
MaxPushes == 2
MaxFaults == 1
MaxRewrites == 2
MaxMissing == 4
MaxInput == 3
MaxReleases == 2

\* ------------------------------------------------------- values and files
\* One byte value is enough: bodies differ by their length, and a partial
\* body is a proper prefix of the whole one.
Bytes == {0}

\* Every body the origin can send and every prior content of a file.
Content == UNION {[1..n -> Bytes] : n \in 0..MaxBody}

\* A path at which no file exists.
NoFile == <<-1>>

\* Option::None for the `hash` argument.
NoHash == -1

\* Sha256::new(): the initial state of the streaming digest.
Sha256New == 7

\* Sha256::update on one byte.  The digest is modelled by a small rolling
\* hash: distinct bodies usually, but not always, have distinct digests.
Sha256Update(s, b) == (s * 5 + b + 1) % 61

RECURSIVE Sha256Feed(_, _)
Sha256Feed(s, bytes) ==
    IF bytes = <<>> THEN s
    ELSE Sha256Feed(Sha256Update(s, Head(bytes)), Tail(bytes))

\* format!("{:x}", sha256.finalize()) of a digest fed with `bytes`.
Sha256Hex(bytes) == Sha256Feed(Sha256New, bytes)

\* The expected hashes a caller may pass.
Hashes == {Sha256Hex(c) : c \in Content}

\* reqwest responses.  status 0: send() failed, there is no response.
\* fail = -1: the body arrives whole; fail = k: the transport breaks after
\* k chunks (bytes) of the body were delivered, before the end of the body
\* is seen.
SendError == [status |-> 0, body |-> <<>>, fail |-> -1]
Statuses == {200, 403, 404}
Responses ==
    {SendError} \cup
    UNION {{[status |-> s, body |-> b, fail |-> f] : f \in -1..Len(b)} :
              s \in Statuses, b \in Content}

\* Results of one_download / download.
Ok == [kind |-> "Ok", a |-> 0, b |-> 0, data |-> <<>>]
ErrDownload == [kind |-> "Download", a |-> 0, b |-> 0, data |-> <<>>]
ErrMismatchedHash(expected, actual) ==
    [kind |-> "MismatchedHash", a |-> expected, b |-> actual, data |-> <<>>]
ErrNotFound(status, text) ==
    [kind |-> "NotFound", a |-> status, b |-> 0, data |-> text]

\* format!("Server returned {}: {}", status, &text)
NotFoundText(status, text) == <<status>> \o text

\* The four files one download touches.
EmptyFs == [dest |-> NoFile, part |-> NoFile, notfound |-> NoFile,
            badsha256 |-> NoFile]

\* The prefix of the body that reaches the client.
Delivered(resp) ==
    IF resp.fail = -1 THEN resp.body ELSE SubSeq(resp.body, 1, resp.fail)

BodyComplete(resp) == resp.fail = -1

\* What an attempt met, told from the response alone.
ResponseClass(resp, h) ==
    IF resp.status = 0 THEN "send_error"
    ELSE IF ~BodyComplete(resp) THEN "cut"
    ELSE IF resp.status \in {403, 404} THEN "not_found"
    ELSE IF h # NoHash /\ Sha256Hex(resp.body) # h THEN "bad_body"
    ELSE "good"

\* `status == 403 || status == 404`
IsNotFound_only404(status) == status = 404
IsNotFound(status) == status = 403 \/ status = 404

\* `if let Some(h) = hash { if f_hash == h {..} } else {..}`: the attempt
\* may put its .part in place.
HashAccepted_always(h, f_hash) == TRUE
HashAccepted(h, f_hash) == h = NoHash \/ f_hash = h

\* f.write_all(&chunk): the chunk goes to the end of the .part file.
WriteChunk_dest(f, b) ==
    [f EXCEPT !.dest = IF f.dest = NoFile THEN <<b>> ELSE Append(f.dest, b)]
WriteChunk(f, b) == [f EXCEPT !.part = Append(f.part, b)]

\* fs::write(badsha_path, &f_hash)
BadShaContents_expected(h, f_hash) == <<h>>
BadShaContents(h, f_hash) == <<f_hash>>

\* move_if_exists(&part_path, path) / fs::rename(part_path, path)
RenamePart_copy(f) == [f EXCEPT !.dest = f.part]
RenamePart(f) == [f EXCEPT !.dest = f.part, !.part = NoFile]

\* `for _ in 0..=retries`: another iteration begins after `begun` of them.
LoopContinues_extra(begun, r) == begun <= r + 1
LoopContinues(begun, r) == begun <= r

\* ------------------------------------------------- one_download, as a function
\* The effect of one whole attempt on the files, and its result.
one_download(f, h, resp) ==
    IF resp.status = 0 THEN [fs |-> f, res |-> ErrDownload]
    ELSE IF IsNotFound(resp.status) THEN
        IF BodyComplete(resp)
        THEN [fs |-> [f EXCEPT !.part = <<>>,
                               !.notfound = NotFoundText(resp.status, resp.body)],
              res |-> ErrNotFound(resp.status, resp.body)]
        ELSE [fs |-> [f EXCEPT !.part = <<>>], res |-> ErrDownload]
    ELSE IF ~BodyComplete(resp) THEN
        [fs |-> [f EXCEPT !.part = Delivered(resp)], res |-> ErrDownload]
    ELSE LET f_hash == IF h = NoHash THEN Sha256Hex(<<>>)
                       ELSE Sha256Hex(resp.body)
             staged == [f EXCEPT !.part = resp.body]
         IN  IF HashAccepted(h, f_hash)
             THEN [fs |-> RenamePart(staged), res |-> Ok]
             ELSE [fs |-> [staged EXCEPT
                             !.badsha256 = BadShaContents(h, f_hash)],
                   res |-> ErrMismatchedHash(h, f_hash)]

\* path.exists() && !force_download, and the stored file passes the check.
LocalCopyAccepted_never(f, h, force) == f.dest # NoFile /\ ~force /\ h = NoHash
LocalCopyAccepted(f, h, force) ==
    /\ f.dest # NoFile
    /\ ~force
    /\ (h = NoHash \/ Sha256Hex(f.dest) = h)

\* The retry loop `for _ in 0..=retries`: resps[i] is what the i-th fetch
\* meets.  `res` is assigned only by a failed attempt; a successful one
\* leaves the loop through `break`.
RECURSIVE download_loop(_, _, _, _, _, _)
download_loop(f, h, left, resps, r0, n) ==
    IF ~LoopContinues(n, left) \/ resps = <<>>
    THEN [fs |-> f, res |-> r0, fetches |-> n]
    ELSE LET r == one_download(f, h, Head(resps)) IN
         IF r.res.kind = "Ok"
         THEN [fs |-> r.fs, res |-> r0, fetches |-> n + 1]
         ELSE download_loop(r.fs, h, left, Tail(resps), r.res, n + 1)

download(f, h, r, force, resps) ==
    IF LocalCopyAccepted(f, h, force)
    THEN [fs |-> f, res |-> Ok, fetches |-> 0]
    ELSE download_loop(f, h, r, resps, Ok, 0)

\* ---------------------------------------------------------------- state
VARIABLES
    fs,             \* Downloader: the files dest, dest.part, .notfound, .badsha256
    hash,           \* Downloader: the `hash` argument of the current call
    retries,        \* Downloader: the `retries` argument
    force_download, \* Downloader: the `force_download` argument
    dl_pc,          \* Downloader: position inside download / one_download
    iter,           \* Downloader: iterations of the retry loop begun so far
    http_res,       \* Downloader: the response of the latest attempt
    pos,            \* Downloader: chunks of the body consumed so far
    sha256,         \* Downloader: state of the streaming digest
    res,            \* Downloader: the variable `res` of download
    dest0,          \* history: the file at dest when the current call began
    fetches,        \* history: requests sent during the current call
    last,           \* history: ResponseClass of the latest finished attempt
    all_bad,        \* history: every finished attempt of the call met a bad body
    artifact        \* history: dest was put in place by a successful attempt

dlvars == <<fs, hash, retries, force_download, dl_pc, iter, http_res, pos,
            sha256, res, dest0, fetches, last, all_bad, artifact>>

VARIABLES
    upstream,       \* the remote index: the commit its master points to
    pushes,         \* number of changes made upstream so far
    base_url,       \* mirror.toml: crates.base_url (NoBaseUrl when unset)
    repo_exists,    \* <root>/crates.io-index/.git exists
    heads_master,   \* refs/heads/master of the local index
    HEAD,           \* the reference HEAD of the local index names
    worktree,       \* the checkout of the local index: its files, as the
                    \* git index and the working directory hold them
    origin_master,  \* refs/remotes/origin/master of the local index
    crates,         \* the files under <root>/crates, by path
    pc,             \* position of the running command
    queue,          \* entries scheduled for download and not yet attempted
    master0,        \* history: refs/heads/master when the run began
    crates0,        \* history: the files under <root>/crates at that time
    attempted,      \* history: entries whose download this run attempted
    scheduled,      \* the entries the batch at hand gave to its tasks
    results,        \* the result each task of the batch returned, by entry
    reported,       \* entries whose failure the batch printed
    net_fetches,    \* history: archive requests sent during this run
    ended           \* history: how the latest run ended

pkgvars == <<upstream, pushes, base_url, repo_exists, heads_master, HEAD,
             worktree, origin_master, crates, pc, queue, master0, crates0,
             attempted, scheduled, results, reported, net_fetches, ended>>

VARIABLES
    keep,           \* mirror.toml: keep_latest_stables / _betas / _nightlies
    pinned_rust_versions, \* mirror.toml: rustup.pinned_rust_versions
    history,        \* mirror-<channel>-history.toml, by channel
    dist,           \* the files under <root>/dist, by path
    ru_pc,          \* position inside rustup::sync
    step,           \* index of the channel being synced
    date,           \* sync_rustup_channel: the date of the manifest
    files,          \* sync_rustup_channel: the download list
    tasks,          \* sync_rustup_channel: targets not yet attempted
    errors_occurred,\* sync_rustup_channel: errors other than NotFound
    failures,       \* sync: a channel sync returned an error
    today,          \* the origin: index in Dates of its current release day
    faults,         \* the origin: requests it has failed to serve well so far
    task_errors,    \* history: targets of this channel sync that ended in an error other than NotFound
    history0,       \* history: the history files when the channel sync began
    ch_res,         \* history: what the latest channel sync returned
    failed_channels,\* history: the channels whose sync returned an error in this run
    dist0,          \* history: dist when the cleanup step began
    cleaned,        \* history: what the cleanup step of the latest run did
    requested,      \* history: the manifest the latest channel sync asked for
    manifests       \* the channel manifests under <root>/dist with their
                    \* sidecars and the files their downloads leave, by path

ruvars == <<keep, pinned_rust_versions, history, dist, ru_pc, step, date,
            files, tasks, errors_occurred, failures, today, faults,
            task_errors,
            history0, ch_res, failed_channels, dist0,
            cleaned, requested, manifests>>

VARIABLES
    interactive     \* handle_user_input: missing_crates (the candidates, in
                    \* listing order), read (what read_line returned),
                    \* input (what the line was parsed to),
                    \* selection (what it returned), pc

invars == <<interactive>>

VARIABLES
    verifier        \* verify_mirror: index (the lines of the local index
                    \* head), allow (mirror_entries), present (the crates
                    \* whose archive path exists), missing (missing_crates,
                    \* as returned), pc

vfvars == <<verifier>>

VARIABLES
    installer       \* sync_rustup_init: release (the rustup release the
                    \* origin serves), platforms (Platforms { unix, windows }),
                    \* files (the tree below rustup/archive and rustup/dist),
                    \* release_toml (rustup/release-stable.toml),
                    \* release_part (rustup/release-stable.toml.part),
                    \* release_fetches (requests for the release file in the
                    \* latest run),
                    \* rustup_version, pc, tasks (platforms whose task has not
                    \* run), errors_occurred, result (what the latest run
                    \* returned), faults (transport failures met so far) and
                    \* the histories synced (platforms whose task returned Ok
                    \* in the latest run) and fetched (its requests)

rivars == <<installer>>

VARIABLES
    batch           \* one batch phase: phase (crates, init or channel),
                    \* download_threads (of the section of mirror.toml),
                    \* todo (tasks not yet started), in_flight (tasks started
                    \* and not yet returned)

batchvars == <<batch>>

VARIABLES
    gateway         \* handle_git and the CGI subprocess it spawned: pc,
                    \* body (chunks of the request body not yet forwarded),
                    \* git_input (the handler holds the write end of the
                    \* subprocess's stdin), stdin (chunks in that pipe),
                    \* cgi (position of the subprocess), to_eof (it reads its
                    \* input to end-of-file before it answers), lines (header
                    \* lines it has yet to write), stdout (lines in the pipe
                    \* of its output), headers (header lines collected),
                    \* served (requests answered so far)

gitvars == <<gateway>>

vars == <<dlvars, pkgvars, ruvars, invars, vfvars, rivars, batchvars, gitvars>>

\* A specification follows one part of the program; the variables of the
\* parts it leaves out hold this value and never change.
Parked == [pc |-> "parked"]

\* ------------------------------------------------------------ Downloader
DlFresh ==
    /\ fs \in {[EmptyFs EXCEPT !.dest = c] : c \in Content \cup {NoFile}}
    /\ hash = NoHash
    /\ retries = 0
    /\ force_download = FALSE
    /\ dl_pc = "idle"
    /\ iter = 0
    /\ http_res = SendError
    /\ pos = 0
    /\ sha256 = Sha256New
    /\ res = Ok
    /\ dest0 = fs.dest
    /\ fetches = 0
    /\ last = "none"
    /\ all_bad = TRUE
    /\ artifact = FALSE

\* download(): entry, the check of an existing file, `let mut res = Ok(())`.
download_call(h, r, force) ==
    /\ dl_pc \in {"idle", "returned"}
    /\ hash' = h
    /\ retries' = r
    /\ force_download' = force
    /\ dest0' = fs.dest
    /\ fetches' = 0
    /\ last' = "none"
    /\ all_bad' = TRUE
    /\ iter' = 0
    /\ res' = Ok
    /\ http_res' = SendError
    /\ dl_pc' = IF LocalCopyAccepted(fs, h, force) THEN "returned" ELSE "loop"
    /\ UNCHANGED <<fs, pos, sha256, artifact>>
    /\ UNCHANGED <<pkgvars, ruvars, invars, vfvars, rivars,
                   batchvars, gitvars>>

\* The end of one_download: its locals go out of scope, the history is kept.
AttemptEnds(resp) ==
    /\ pos' = 0
    /\ sha256' = Sha256New
    /\ last' = ResponseClass(resp, hash)
    /\ all_bad' = (all_bad /\ ResponseClass(resp, hash) = "bad_body")

\* `Err(e) => Err(e)`: res is assigned, the loop goes on or is exhausted.
AttemptFailed(e, begun) ==
    /\ res' = e
    /\ dl_pc' = IF LoopContinues(begun, retries) THEN "loop" ELSE "returned"

\* client.get(url).send().await? -- iteration `iter` of the loop begins.
send ==
    /\ dl_pc = "loop"
    /\ LoopContinues(iter, retries)
    /\ iter' = iter + 1
    /\ fetches' = fetches + 1
    /\ \E resp \in Responses :
        /\ http_res' = resp
        /\ IF resp.status = 0
           THEN /\ AttemptEnds(resp)
                /\ AttemptFailed(ErrDownload, iter + 1)
           ELSE /\ dl_pc' = "sent"
                /\ UNCHANGED <<res, pos, sha256, last, all_bad>>
    /\ UNCHANGED <<fs, hash, retries, force_download, dest0, artifact>>
    /\ UNCHANGED <<pkgvars, ruvars, invars, vfvars, rivars,
                   batchvars, gitvars>>

\* create_file_create_dir(&part_path), then the status test.
create_part ==
    /\ dl_pc = "sent"
    /\ fs' = [fs EXCEPT !.part = <<>>]
    /\ dl_pc' = IF IsNotFound(http_res.status) THEN "forbidden" ELSE "body"
    /\ UNCHANGED <<hash, retries, force_download, iter, http_res, pos, sha256,
                   res, dest0, fetches, last, all_bad, artifact>>
    /\ UNCHANGED <<pkgvars, ruvars, invars, vfvars, rivars,
                   batchvars, gitvars>>

\* http_res.text().await?, fs::write(forbidden_path, ..), Err(NotFound).
not_found ==
    /\ dl_pc = "forbidden"
    /\ IF BodyComplete(http_res)
       THEN /\ fs' = [fs EXCEPT !.notfound =
                        NotFoundText(http_res.status, http_res.body)]
            /\ AttemptFailed(ErrNotFound(http_res.status, http_res.body), iter)
       ELSE /\ fs' = fs
            /\ AttemptFailed(ErrDownload, iter)
    /\ AttemptEnds(http_res)
    /\ UNCHANGED <<hash, retries, force_download, iter, http_res, dest0,
                   fetches, artifact>>
    /\ UNCHANGED <<pkgvars, ruvars, invars, vfvars, rivars,
                   batchvars, gitvars>>

\* One turn of `while let Some(chunk) = http_res.chunk().await?`.
chunk ==
    /\ dl_pc = "body"
    /\ IF pos = http_res.fail
       THEN \* the transport breaks: Err(Download)
            /\ AttemptEnds(http_res)
            /\ AttemptFailed(ErrDownload, iter)
            /\ UNCHANGED fs
       ELSE IF pos < Len(http_res.body)
       THEN \* Some(chunk): hash it when a hash is expected, write it
            /\ sha256' = IF hash # NoHash
                         THEN Sha256Update(sha256, http_res.body[pos + 1])
                         ELSE sha256
            /\ fs' = WriteChunk(fs, http_res.body[pos + 1])
            /\ pos' = pos + 1
            /\ UNCHANGED <<res, dl_pc, last, all_bad>>
       ELSE \* None: the body is complete
            /\ dl_pc' = "hashed"
            /\ UNCHANGED <<fs, pos, sha256, res, last, all_bad>>
    /\ UNCHANGED <<hash, retries, force_download, iter, http_res, dest0,
                   fetches, artifact>>
    /\ UNCHANGED <<pkgvars, ruvars, invars, vfvars, rivars,
                   batchvars, gitvars>>

\* f_hash, the comparison with `hash`, the rename or the .badsha256 file.
finish ==
    /\ dl_pc = "hashed"
    /\ LET f_hash == sha256 IN
       IF HashAccepted(hash, f_hash)
       THEN \* Ok(_) => break
            /\ fs' = RenamePart(fs)
            /\ artifact' = TRUE
            /\ dl_pc' = "returned"
            /\ UNCHANGED res
       ELSE /\ fs' = [fs EXCEPT !.badsha256 = BadShaContents(hash, f_hash)]
            /\ AttemptFailed(ErrMismatchedHash(hash, f_hash), iter)
            /\ UNCHANGED artifact
    /\ AttemptEnds(http_res)
    /\ UNCHANGED <<hash, retries, force_download, iter, http_res, dest0,
                   fetches>>
    /\ UNCHANGED <<pkgvars, ruvars, invars, vfvars, rivars,
                   batchvars, gitvars>>

DlNext ==
    \/ \E h \in Hashes \cup {NoHash}, r \in 0..MaxRetries, force \in BOOLEAN :
          download_call(h, r, force)
    \/ send
    \/ create_part
    \/ not_found
    \/ chunk
    \/ finish

\* The Downloader is left out.
DlParked ==
    /\ fs = Parked
    /\ hash = Parked
    /\ retries = Parked
    /\ force_download = Parked
    /\ dl_pc = Parked
    /\ iter = Parked
    /\ http_res = Parked
    /\ pos = Parked
    /\ sha256 = Parked
    /\ res = Parked
    /\ dest0 = Parked
    /\ fetches = Parked
    /\ last = Parked
    /\ all_bad = Parked
    /\ artifact = Parked

\* ------------------------------------------------ the index and the mirror
\* Crate names, as sequences of characters.
Names == {<<"a">>, <<"b", "e">>}
Versions == {1}

\* CrateEntry (the fields the sync reads).  The index records the SHA-256
\* of the archive the registry published for (name, vers).
ArchiveBody(n, v) == <<Len(n), v>>
Cksum(n, v) == Sha256Hex(ArchiveBody(n, v))
CrateEntry(n, v) == [name |-> n, vers |-> v, cksum |-> Cksum(n, v)]
Entries == {CrateEntry(n, v) : n \in Names, v \in Versions}

\* An index file that is not in a tree (a delta whose new OID is zero).
AbsentFile == {-1}

\* A line of an index file that is not the JSON of a CrateEntry.
BadLine == 0

\* Strings of config.json and of mirror.toml, cut at every "/".
Slash == "/"
Str_placeholders == <<"{crate}", Slash, "{crate}-{version}.crate">>
BaseUrl == <<"http:", Slash, Slash, "panamax.internal">>
NoBaseUrl == <<>>

\* ConfigJson: the two fields of config.json.
ConfigJson(dl, api) == [dl |-> dl, api |-> api]

\* config.json as crates.io publishes it, and the tree without one.
UpstreamConfigJson ==
    ConfigJson(<<"https:", Slash, Slash, "crates.io", Slash, "api", Slash,
                 "v1", Slash, "crates">>,
               <<"https:", Slash, Slash, "crates.io">>)
NoConfigJson == ConfigJson(<<>>, <<>>)

\* A git tree of the index: one file of lines per crate name (the
\* versions of its well-formed lines, and BadLine), and config.json.
Trees == [files : [Names -> {AbsentFile} \cup SUBSET Versions],
          config : {UpstreamConfigJson}]
EmptyTree == [files |-> [n \in Names |-> AbsentFile],
              config |-> NoConfigJson]

\* A commit: the upstream commit it is or descends from (gen), the number
\* of local rewrite commits on top of it (rw), and its tree.
NoCommit == [gen |-> -1, rw |-> 0, tree |-> EmptyTree]

\* Reference names.
Str_refname == "refs/heads/master"
NoRef == "none"

\* The lines of the index file `n` of tree t that parse as a CrateEntry.
LinesOf(t, n) ==
    IF t.files[n] = AbsentFile THEN {}
    ELSE {CrateEntry(n, v) : v \in t.files[n] \ {BadLine}}

AllEntries(t) == UNION {LinesOf(t, n) : n \in Names}

\* Path components.
Str_crates == <<"c", "r", "a", "t", "e", "s">>
Str_download == <<"d", "o", "w", "n", "l", "o", "a", "d">>
Str_ext == <<".", "c", "r", "a", "t", "e">>
Digit == <<"1", "2", "3", "4", "5", "6", "7", "8", "9">>
VersStr(v) == <<"0", ".", Digit[v]>>

\* sync_one_crate_entry: <root>/crates/<name>/<vers>/download
file_path(n, v) == <<Str_crates, n, VersStr(v), Str_download>>

\* get_crate_path (used by verify.rs and serve.rs): the sharded layout
\* <root>/crates/<shard>/<name>/<vers>/<name>-<vers>.crate
Shard(n) ==
    CASE Len(n) = 1 -> << <<"1">> >>
      [] Len(n) = 2 -> << <<"2">> >>
      [] Len(n) = 3 -> << <<"3">>, <<n[1]>> >>
      [] OTHER      -> << SubSeq(n, 1, 2), SubSeq(n, 3, 4) >>
get_crate_path(n, v) ==
    <<Str_crates>> \o Shard(n) \o
        <<n, VersStr(v), n \o <<"-">> \o VersStr(v) \o Str_ext>>

Paths == {file_path(n, v) : n \in Names, v \in Versions}
            \cup {get_crate_path(n, v) : n \in Names, v \in Versions}

\* What the origin may answer to the request for the archive of e.
PkgResponses(e) ==
    { SendError,
      [status |-> 200, body |-> ArchiveBody(e.name, e.vers), fail |-> -1],
      [status |-> 200, body |-> <<>>, fail |-> -1],
      [status |-> 404, body |-> <<>>, fail |-> -1] }

\* mirror.retries of mirror.toml.
MirrorRetries == MaxRetries

\* What the fetches of one download call may meet.
Attempts(e) == [1..(MirrorRetries + 1) -> PkgResponses(e)]

\* repo.diff_tree_to_tree(old, new): the paths whose blob differs.
diff_tree_to_tree_all(old, new) ==
    {n \in Names : new.files[n] # AbsentFile}
diff_tree_to_tree(old, new) ==
    {n \in Names : old.files[n] # new.files[n]}

\* The first pass of sync_crates_files over the deltas: find_blob(oid)
\* .unwrap() panics on a delta whose new file is gone.
DiffPanics(old, new) ==
    \E n \in diff_tree_to_tree(old, new) : new.files[n] = AbsentFile

\* The second pass: serde_json::from_str(&line).unwrap() panics on a line
\* of a delta that is not a CrateEntry.
ParsePanics(old, new) ==
    \E n \in diff_tree_to_tree(old, new) :
        new.files[n] # AbsentFile /\ BadLine \in new.files[n]

\* The entries sync_crates_files hands to the pool: every line of the new
\* blob of every delta (config.json is skipped).
Scheduled(old, new) ==
    UNION {LinesOf(new, n) : n \in diff_tree_to_tree(old, new)}

\* The results of the tasks before any has returned.
NoResults == [e \in Entries |-> "none"]

\* The match on the result of a task: Ok, NotFound and MismatchedHash fall
\* in the empty arm, any other error is printed.
Reported_never(kind) == FALSE
Reported(kind) == kind \notin {"Ok", "NotFound", "MismatchedHash"}

\* ------------------------------------------------------ the package run
PkgFresh ==
    /\ upstream \in {[gen |-> 0, rw |-> 0, tree |-> t] :
                       t \in {u \in Trees : /\ AllEntries(u) # {}
                                            /\ \A n \in Names :
                                                 u.files[n] # {}}}
    /\ pushes = 0
    /\ base_url \in {NoBaseUrl, BaseUrl}
    /\ repo_exists = FALSE
    /\ heads_master = NoCommit
    /\ HEAD = NoRef
    /\ worktree = EmptyTree
    /\ origin_master = NoCommit
    /\ crates = [p \in Paths |-> NoFile]
    /\ pc = "idle"
    /\ queue = {}
    /\ master0 = NoCommit
    /\ crates0 = [p \in Paths |-> NoFile]
    /\ attempted = {}
    /\ scheduled = {}
    /\ results = NoResults
    /\ reported = {}
    /\ net_fetches = 0
    /\ ended = "none"

\* The package sync is left out.
PkgParked ==
    /\ upstream = Parked
    /\ pushes = Parked
    /\ base_url = Parked
    /\ repo_exists = Parked
    /\ heads_master = Parked
    /\ HEAD = Parked
    /\ worktree = Parked
    /\ origin_master = Parked
    /\ crates = Parked
    /\ pc = Parked
    /\ queue = Parked
    /\ master0 = Parked
    /\ crates0 = Parked
    /\ attempted = Parked
    /\ scheduled = Parked
    /\ results = Parked
    /\ reported = Parked
    /\ net_fetches = Parked
    /\ ended = Parked

\* The registry publishes a version: a line is appended to an index file
\* (v = BadLine: a line that is not a CrateEntry).
upstream_publish(n, v) ==
    /\ pc = "idle"
    /\ pushes < MaxPushes
    /\ upstream.tree.files[n] = AbsentFile \/ v \notin upstream.tree.files[n]
    /\ upstream' =
         [gen |-> upstream.gen + 1, rw |-> 0,
          tree |-> [upstream.tree EXCEPT !.files[n] =
                      IF @ = AbsentFile THEN {v} ELSE @ \cup {v}]]
    /\ pushes' = pushes + 1
    /\ UNCHANGED <<base_url, repo_exists, heads_master, HEAD, worktree,
                   origin_master, crates, pc, queue, master0, crates0,
                   attempted, net_fetches, ended>>
    /\ UNCHANGED <<scheduled, results, reported>>
    /\ UNCHANGED <<dlvars, ruvars, invars, vfvars, rivars,
                   batchvars, gitvars>>

\* The registry removes an index file.
upstream_remove(n) ==
    /\ pc = "idle"
    /\ pushes < MaxPushes
    /\ upstream.tree.files[n] # AbsentFile
    /\ upstream' =
         [gen |-> upstream.gen + 1, rw |-> 0,
          tree |-> [upstream.tree EXCEPT !.files[n] = AbsentFile]]
    /\ pushes' = pushes + 1
    /\ UNCHANGED <<base_url, repo_exists, heads_master, HEAD, worktree,
                   origin_master, crates, pc, queue, master0, crates0,
                   attempted, net_fetches, ended>>
    /\ UNCHANGED <<scheduled, results, reported>>
    /\ UNCHANGED <<dlvars, ruvars, invars, vfvars, rivars,
                   batchvars, gitvars>>

\* fast_forward: refs/heads/master (created if absent) := the commit of
\* refs/remotes/origin/master; set_head(refname); checkout_head with
\* force writes the tree of HEAD over the checkout.
fast_forward_nocheckout(master, origin) ==
    [master |-> origin, HEAD |-> Str_refname,
     worktree |-> IF master = NoCommit THEN EmptyTree ELSE master.tree]
fast_forward(master, origin) ==
    [master |-> origin, HEAD |-> Str_refname, worktree |-> origin.tree]

\* clone_repository: RepoBuilder::clone, as `git clone`: the remote
\* branch is fetched, a local master is created at the same commit, HEAD
\* names it and its tree is checked out.
clone_repository(remote) ==
    [origin |-> remote, master |-> remote, HEAD |-> Str_refname,
     worktree |-> remote.tree]

\* crates_index::sync_crates_repo, first step of mirror::sync_crates.  On
\* a git error the run stops (mirror.rs:239-243).
sync_crates_repo ==
    /\ pc = "idle"
    /\ master0' = heads_master
    /\ crates0' = crates
    /\ attempted' = {}
    /\ net_fetches' = 0
    /\ queue' = {}
    /\ \/ \* clone or fetch failed
          /\ pc' = "idle"
          /\ ended' = "sync_failed"
          /\ UNCHANGED <<repo_exists, heads_master, HEAD, worktree,
                         origin_master>>
       \/ /\ ~repo_exists
          /\ repo_exists' = TRUE
          /\ origin_master' = clone_repository(upstream).origin
          /\ heads_master' = clone_repository(upstream).master
          /\ HEAD' = clone_repository(upstream).HEAD
          /\ worktree' = clone_repository(upstream).worktree
          /\ pc' = "repo_synced"
          /\ ended' = "running"
       \/ /\ repo_exists
          /\ origin_master' = upstream
          /\ heads_master' = fast_forward(heads_master, upstream).master
          /\ HEAD' = fast_forward(heads_master, upstream).HEAD
          /\ worktree' = fast_forward(heads_master, upstream).worktree
          /\ pc' = "repo_synced"
          /\ ended' = "running"
          /\ UNCHANGED repo_exists
    /\ UNCHANGED <<upstream, pushes, base_url, crates>>
    /\ scheduled' = {}
    /\ results' = NoResults
    /\ reported' = {}
    /\ UNCHANGED <<dlvars, ruvars, invars, vfvars, rivars,
                   batchvars, gitvars>>

\* crates::sync_crates_files up to the scheduling of the downloads: the
\* two references, the diff, the two passes over the deltas.
sync_crates_files ==
    /\ pc = "repo_synced"
    /\ LET old == IF heads_master = NoCommit THEN EmptyTree
                  ELSE heads_master.tree
           new == origin_master.tree
       IN  IF DiffPanics(old, new)
           THEN /\ pc' = "idle"
                /\ ended' = "sync_panicked"
                /\ UNCHANGED queue
           ELSE IF ParsePanics(old, new)
           THEN \* the tasks handed to the pool before the panic still run
                /\ pc' = "unwinding"
                /\ queue' \in SUBSET Scheduled(old, new)
                /\ UNCHANGED ended
           ELSE /\ pc' = "downloading"
                /\ queue' = Scheduled(old, new)
                /\ UNCHANGED ended
    /\ UNCHANGED <<upstream, pushes, base_url, repo_exists, heads_master,
                   HEAD, worktree, origin_master, crates, master0, crates0,
                   attempted, net_fetches>>
    /\ scheduled' = queue'
    /\ UNCHANGED <<results, reported>>
    /\ UNCHANGED <<dlvars, ruvars, invars, vfvars, rivars,
                   batchvars, gitvars>>

\* sync_one_crate_entry, one task of the pool (sync) or of the repair
\* stream (verify): download(url, file_path, Some(cksum), retries, false).
sync_one_crate_entry(e) ==
    /\ pc \in {"downloading", "unwinding", "repairing"}
    /\ e \in queue
    /\ \E resps \in Attempts(e) :
         LET p == file_path(e.name, e.vers)
             f == [EmptyFs EXCEPT !.dest = crates[p]]
             d == download(f, e.cksum, MirrorRetries, FALSE,
                           [i \in 1..(MirrorRetries + 1) |-> resps[i]])
         IN  /\ crates' = [crates EXCEPT ![p] = d.fs.dest]
             /\ net_fetches' = net_fetches + d.fetches
             /\ results' = [results EXCEPT ![e] = d.res.kind]
             /\ reported' = IF Reported(d.res.kind)
                             THEN reported \cup {e} ELSE reported
    /\ queue' = queue \ {e}
    /\ attempted' = attempted \cup {e}
    /\ UNCHANGED <<upstream, pushes, base_url, repo_exists, heads_master,
                   HEAD, worktree, origin_master, pc, master0, crates0,
                   ended>>
    /\ UNCHANGED scheduled
    /\ UNCHANGED <<dlvars, ruvars, invars, vfvars, rivars,
                   batchvars, gitvars>>

\* format!("{}/{}", base_url, "{crate}/{crate}-{version}.crate")
crate_path(b) == b \o <<Slash>> \o Str_placeholders

\* The ConfigJson rewrite_config_json writes for base_url b.
config_json_sameapi(b) == ConfigJson(crate_path(b), UpstreamConfigJson.api)
config_json(b) == ConfigJson(crate_path(b), b)

\* rewrite_config_json: config.json is written into the checkout and
\* added to the git index; the tree of the index is committed on
\* refs/heads/master with the commit of master as its parent.
rewrite_config_json(master, wt, b) ==
    [master |-> [gen |-> master.gen, rw |-> master.rw + 1,
                 tree |-> [wt EXCEPT !.config = config_json(b)]],
     worktree |-> [wt EXCEPT !.config = config_json(b)]]

\* The end of sync_crates_files (Ok, or the panic of its second pass
\* once the pool is joined) and crates_index::update_crates_config, last
\* step of mirror::sync_crates.
update_crates_config ==
    /\ pc \in {"downloading", "unwinding"}
    /\ queue = {}
    /\ IF pc = "unwinding"
       THEN /\ ended' = "sync_panicked"
            /\ UNCHANGED <<heads_master, worktree>>
       ELSE /\ ended' = "sync_ok"
            /\ IF base_url # NoBaseUrl
               THEN /\ heads_master' =
                         rewrite_config_json(heads_master, worktree,
                                             base_url).master
                    /\ worktree' =
                         rewrite_config_json(heads_master, worktree,
                                             base_url).worktree
               ELSE UNCHANGED <<heads_master, worktree>>
    /\ pc' = "idle"
    /\ UNCHANGED <<upstream, pushes, base_url, repo_exists, HEAD,
                   origin_master, crates, queue, master0, crates0,
                   attempted, net_fetches>>
    /\ scheduled' = {}
    /\ results' = NoResults
    /\ reported' = {}
    /\ UNCHANGED <<dlvars, ruvars, invars, vfvars, rivars,
                   batchvars, gitvars>>

\* mirror::rewrite, the `rewrite` command: rewrite_config_json alone, on
\* the repository as it stands.
rewrite ==
    /\ pc = "idle"
    /\ repo_exists
    /\ base_url # NoBaseUrl
    /\ heads_master.rw < MaxRewrites
    /\ heads_master' =
         rewrite_config_json(heads_master, worktree, base_url).master
    /\ worktree' =
         rewrite_config_json(heads_master, worktree, base_url).worktree
    /\ ended' = "rewrite_ok"
    /\ UNCHANGED <<upstream, pushes, base_url, repo_exists, HEAD,
                   origin_master, crates, pc, queue, master0, crates0,
                   attempted, net_fetches>>
    /\ UNCHANGED <<scheduled, results, reported>>
    /\ UNCHANGED <<dlvars, ruvars, invars, vfvars, rivars,
                   batchvars, gitvars>>

\* verify_mirror: the entries of the local head whose archive is missing.
Missing(t) ==
    {e \in AllEntries(t) : crates[get_crate_path(e.name, e.vers)] = NoFile}

\* verify_mirror followed by fix_mirror (--assume-yes): the missing
\* entries are handed to the download stream.
verify_mirror ==
    /\ pc = "idle"
    /\ repo_exists
    /\ heads_master # NoCommit
    /\ master0' = heads_master
    /\ crates0' = crates
    /\ attempted' = {}
    /\ net_fetches' = 0
    /\ queue' = Missing(heads_master.tree)
    /\ pc' = "repairing"
    /\ ended' = "running"
    /\ UNCHANGED <<upstream, pushes, base_url, repo_exists, heads_master,
                   HEAD, worktree, origin_master, crates>>
    /\ scheduled' = queue'
    /\ results' = NoResults
    /\ reported' = {}
    /\ UNCHANGED <<dlvars, ruvars, invars, vfvars, rivars,
                   batchvars, gitvars>>

\* fix_mirror: every task has been collected.
fix_mirror ==
    /\ pc = "repairing"
    /\ queue = {}
    /\ pc' = "idle"
    /\ ended' = "verify_ok"
    /\ UNCHANGED <<upstream, pushes, base_url, repo_exists, heads_master,
                   HEAD, worktree, origin_master, crates, queue, master0,
                   crates0, attempted, net_fetches>>
    /\ scheduled' = {}
    /\ results' = NoResults
    /\ reported' = {}
    /\ UNCHANGED <<dlvars, ruvars, invars, vfvars, rivars,
                   batchvars, gitvars>>

\* ------------------------------------------------ files and sidecars
\* append_to_path: the suffix goes to the end of the file name.
append_to_path(path, suffix) == [path EXCEPT !.suffix = @ \o suffix]

\* A tree of files maps the paths that exist to their contents.
\* path.exists() and a read:
ReadFile(tree, path) == IF path \in DOMAIN tree THEN tree[path] ELSE NoFile

\* A write, a rename onto, or (data = NoFile) the removal of a path.
WriteFile(tree, path, data) ==
    IF data = NoFile
    THEN [q \in DOMAIN tree \ {path} |-> tree[q]]
    ELSE [q \in DOMAIN tree \cup {path} |->
            IF q = path THEN data ELSE tree[q]]

NoTree == [p \in {} |-> NoFile]

\* The .sha256 file the origin keeps next to a body, and the page it
\* answers where it has no file.  (Both are at least as long as the slice
\* taken by download_with_sha256_file.)
Sha256File(body) == <<Sha256Hex(body)>>
ErrorPage == <<404, 404>>

\* `&sha256_data[..64]`
HashPrefix(sha256_data) == Head(sha256_data)

Whole(status, body) == [status |-> status, body |-> body, fail |-> -1]

\* The four files of a download to `path`, taken from and put back into
\* the tree.
FilesAt(tree, path) ==
    [dest |-> ReadFile(tree, path),
     part |-> ReadFile(tree, append_to_path(path, ".part")),
     notfound |-> ReadFile(tree, append_to_path(path, ".notfound")),
     badsha256 |-> ReadFile(tree, append_to_path(path, ".badsha256"))]

StoreAt(tree, path, f) ==
    WriteFile(
      WriteFile(
        WriteFile(
          WriteFile(tree, path, f.dest),
          append_to_path(path, ".part"), f.part),
        append_to_path(path, ".notfound"), f.notfound),
      append_to_path(path, ".badsha256"), f.badsha256)

\* download_string: no status check, the text of whatever page came.
download_string(resp) ==
    IF resp.status = 0 \/ ~BodyComplete(resp)
    THEN [res |-> ErrDownload, text |-> <<>>]
    ELSE [res |-> Ok, text |-> resp.body]

\* download_with_sha256_file: sha_resp answers the .sha256 request, resps
\* the attempts at the file itself.
download_with_sha256_file(tree, path, r, force, sha_resp, resps) ==
    LET s == download_string(sha_resp) IN
    IF s.res.kind # "Ok" THEN [tree |-> tree, res |-> s.res]
    ELSE LET sha256_data == s.text
             d == download(FilesAt(tree, path), HashPrefix(sha256_data),
                           r, force, resps)
             after == StoreAt(tree, path, d.fs)
         IN  IF d.res.kind # "Ok" THEN [tree |-> after, res |-> d.res]
             ELSE [tree |-> WriteFile(after, append_to_path(path, ".sha256"),
                                      sha256_data),
                   res |-> Ok]

\* 1 for a request that was not served well.
FaultCount(b) == IF b THEN 1 ELSE 0

\* --------------------------------------------------------------- rustup
\* The channels of clean_old_files' `versions` array, in its order.
MainChannels == <<"stable", "beta", "nightly">>

\* The one version mirror.toml may pin.
PinnedVersion == "1.50"

\* A pinned nightly, nightly-<date>, and the date in its name.
PinnedNightly == "nightly-02"
PinnedNightlyDate == <<0, 2>>

AllChannels ==
    {MainChannels[i] : i \in 1..3} \cup {PinnedVersion, PinnedNightly}

\* Option<usize> of the keep_latest_* settings; NoKeep is None.
NoKeep == -1

\* The `date` of a channel manifest: two digits, compared as strings.
FirstDate == <<0, 2>>
Dates == <<FirstDate, <<1, 1>>>>

\* String order of two dates (Vec<String>::sort).
DateLess(a, b) == a[1] < b[1] \/ (a[1] = b[1] /\ a[2] < b[2])

\* A url of the manifest after split('/')[3..].join("/"): the string
\* dist/<dir>/<file>, as its parts with the separators between them.
UrlOf(dir, file) == <<"dist", "/", dir, "/", file>>

\* PathBuf from url.split('/'): the parts without the separators.
RECURSIVE split_slash(_)
split_slash(s) ==
    IF s = <<>> THEN <<>>
    ELSE IF Head(s) = "/" THEN split_slash(Tail(s))
    ELSE <<Head(s)>> \o split_slash(Tail(s))

\* The date of the manifest the origin serves for `channel` on day t: a
\* pinned version has one manifest for ever.
ManifestDate(channel, t) ==
    IF channel = PinnedVersion THEN FirstDate
    ELSE IF channel = PinnedNightly THEN PinnedNightlyDate
    ELSE Dates[t]

\* format!("{}/dist/channel-rust-{}.toml", source, channel), after the
\* source.
channel_url(channel) ==
    <<"dist", "/", <<"channel-rust-", channel, ".toml">>>>

\* The manifests the origin has: one per undated channel and per pinned
\* version under dist/, and the nightly of each date under dist/<date>/.
OriginManifests ==
    {channel_url(c) : c \in {MainChannels[i] : i \in 1..3} \cup {PinnedVersion}}
      \cup {UrlOf(Dates[t], <<"channel-rust-", "nightly", ".toml">>) :
               t \in 1..Len(Dates)}

\* The download list of the manifest of `channel` dated d: the archive of
\* that date and, for nightly, one archive that every manifest since the
\* first date lists.
ManifestFiles(channel, d) ==
    {UrlOf(d, <<channel, "rust">>)}
      \cup (IF channel = "nightly"
            THEN {UrlOf(FirstDate, <<channel, "src">>)} ELSE {})
Urls == UNION {ManifestFiles(c, Dates[t]) :
                 c \in AllChannels, t \in 1..Len(Dates)}

\* The archive behind a url and the hash the manifest records for it.
RuBody(url) == <<0>>
RuHash(url) == Sha256Hex(RuBody(url))

\* What the origin may answer to the request for a target.
RuResponses(url) ==
    { SendError,
      [status |-> 200, body |-> RuBody(url), fail |-> -1],
      [status |-> 200, body |-> <<>>, fail |-> -1],
      [status |-> 404, body |-> <<>>, fail |-> -1] }
RuAttempts(url) == [1..(MirrorRetries + 1) -> RuResponses(url)]

\* The origin at its best: every request is answered with the archive.
Healthy(url) ==
    [i \in 1..(MirrorRetries + 1) |->
        [status |-> 200, body |-> RuBody(url), fail |-> -1]]

\* ChannelHistoryFile: `versions` maps a date to the list of its files.
\* NoHistory: the file does not exist (fs::read_to_string fails).
NoHistory == [exists |-> FALSE, versions |-> {}]
Generation(d, fl) == [date |-> d, files |-> fl]

\* The plan of sync: stable, beta, nightly, then the pinned versions.
Plan == MainChannels \o pinned_rust_versions

\* The file at path p as the Downloader finds it.  dist records the
\* artifacts and the manifests; a file the Downloader leaves beside an
\* artifact (.part, .notfound, .badsha256) is in no history, like Stray.
FsAt(d, p) == [EmptyFs EXCEPT !.dest = IF p \in d THEN RuBody(p) ELSE NoFile]

\* dist once the download of path p ended with the files f.
PutFs(d, p, f) == IF f.dest # NoFile THEN d \cup {p} ELSE d \ {p}

\* A .part file an interrupted download of an earlier run left behind.
Stray == <<"dist", FirstDate, <<"nightly", "rust", ".part">>>>

\* The retention settings of mirror.toml the runs are checked with: none,
\* 1 or 2 for every channel, 1 for nightly only, stable skipped.
Configs ==
    { [c \in {MainChannels[i] : i \in 1..3} |-> NoKeep],
      [c \in {MainChannels[i] : i \in 1..3} |-> 1],
      [c \in {MainChannels[i] : i \in 1..3} |-> 2],
      [c \in {MainChannels[i] : i \in 1..3} |->
          IF c = "nightly" THEN 1 ELSE NoKeep],
      [c \in {MainChannels[i] : i \in 1..3} |->
          IF c = "stable" THEN 0 ELSE 1] }

ChRes(kind, count) == [kind |-> kind, count |-> count]

\* The manifest request of a channel sync.
Request(channel, url) == [channel |-> channel, url |-> url]
NoRequest == Request("none", <<>>)

RuFresh ==
    /\ keep \in Configs
    /\ pinned_rust_versions \in {<<>>, <<PinnedVersion>>, <<PinnedNightly>>}
    /\ history = [c \in AllChannels |-> NoHistory]
    /\ dist = {Stray}
    /\ ru_pc = "idle"
    /\ step = 0
    /\ date = FirstDate
    /\ files = {}
    /\ tasks = {}
    /\ errors_occurred = 0
    /\ failures = FALSE
    /\ today = 1
    /\ faults = 0
    /\ task_errors = 0
    /\ history0 = history
    /\ ch_res = ChRes("none", 0)
    /\ failed_channels = {}
    /\ dist0 = {}
    /\ cleaned = "none"
    /\ requested = NoRequest
    /\ manifests = NoTree

\* The rustup synchronizer is left out.
RuParked ==
    /\ keep = Parked
    /\ pinned_rust_versions = Parked
    /\ history = Parked
    /\ dist = Parked
    /\ ru_pc = Parked
    /\ step = Parked
    /\ date = Parked
    /\ files = Parked
    /\ tasks = Parked
    /\ errors_occurred = Parked
    /\ failures = Parked
    /\ today = Parked
    /\ faults = Parked
    /\ task_errors = Parked
    /\ history0 = Parked
    /\ ch_res = Parked
    /\ failed_channels = Parked
    /\ dist0 = Parked
    /\ cleaned = Parked
    /\ requested = Parked
    /\ manifests = Parked

\* sync, up to the first channel: rustup-init is mirrored outside dist/
\* and its result is only printed.  The origin may have moved to its next
\* release day since the last run.
sync_begin ==
    /\ ru_pc = "idle"
    /\ today' \in {today, today + 1} \cap (1..Len(Dates))
    /\ failures' = FALSE
    /\ step' = 1
    /\ ru_pc' = "channel"
    /\ cleaned' = "none"
    /\ ch_res' = ChRes("none", 0)
    /\ failed_channels' = {}
    /\ UNCHANGED <<keep, pinned_rust_versions, history, dist, date, files,
                   tasks, errors_occurred, task_errors, history0, dist0,
                   faults>>
    /\ UNCHANGED <<requested, manifests>>
    /\ UNCHANGED <<dlvars, pkgvars, invars, vfvars, rivars,
                   batchvars, gitvars>>

\* `if rustup.keep_latest_<channel> != Some(0)` is false: the channel is
\* not synced.
skip_channel ==
    /\ ru_pc = "channel"
    /\ step <= 3
    /\ keep[Plan[step]] = 0
    /\ step' = step + 1
    /\ ch_res' = ChRes("skipped", 0)
    /\ UNCHANGED <<keep, pinned_rust_versions, history, dist, ru_pc, date,
                   files, tasks, errors_occurred, failures, today, faults,
                   task_errors, history0, dist0, cleaned, failed_channels>>
    /\ UNCHANGED <<requested, manifests>>
    /\ UNCHANGED <<dlvars, pkgvars, invars, vfvars, rivars,
                   batchvars, gitvars>>

\* A channel sync returned Err(e) to sync.
ChannelFailed(e) ==
    /\ failures' = TRUE
    /\ ch_res' = e
    /\ failed_channels' = failed_channels \cup {Plan[step]}
    /\ IF step > 3 /\ e.kind = "NotFound"
       THEN ru_pc' = "idle" /\ step' = 0
       ELSE ru_pc' = "channel" /\ step' = step + 1

\* path.join(format!("dist/channel-rust-{}.toml", channel)) and the path
\* the manifest is downloaded to.
channel_path(channel) == [channel |-> channel, suffix |-> ""]
channel_part_path_canonical(channel) == channel_path(channel)
channel_part_path(channel) == append_to_path(channel_path(channel), ".part")

\* The manifest dated d, and a document that is no manifest.
ManifestToml(d) == d
NotAManifest == <<9>>

\* rustup_download_list: the date and the download list of a manifest, or
\* the error of toml::from_str.
rustup_download_list(channel, data) ==
    IF \E t \in 1..Len(Dates) : data = ManifestToml(Dates[t])
    THEN [ok |-> TRUE, date |-> data, files |-> ManifestFiles(channel, data)]
    ELSE [ok |-> FALSE, date |-> FirstDate, files |-> {}]

\* move_if_exists: fs::rename when `from` exists.
move_if_exists(tree, from, to) ==
    IF ReadFile(tree, from) = NoFile THEN tree
    ELSE WriteFile(WriteFile(tree, to, ReadFile(tree, from)), from, NoFile)

\* move_if_exists_with_sha256: the sidecar first, then the file.
move_if_exists_with_sha256(tree, from, to) ==
    move_if_exists(
        move_if_exists(tree, append_to_path(from, ".sha256"),
                       append_to_path(to, ".sha256")),
        from, to)

\* What the origin answers, at its best, to the request for the manifest
\* of `channel` on day t and to the request for its .sha256.
OriginManifest(channel, t) ==
    IF channel_url(channel) \in OriginManifests
    THEN Whole(200, ManifestToml(ManifestDate(channel, t)))
    ELSE Whole(404, ErrorPage)
OriginManifestSha256(channel, t) ==
    IF channel_url(channel) \in OriginManifests
    THEN Whole(200, Sha256File(ManifestToml(ManifestDate(channel, t))))
    ELSE Whole(404, ErrorPage)

\* The files a forced download to `path` leaves beside it are read by no
\* later step (the next attempt truncates the .part, nothing opens the
\* .notfound and the .badsha256): the tree goes on without them.
Unread(tree, path) ==
    WriteFile(
      WriteFile(
        WriteFile(tree, append_to_path(path, ".part"), NoFile),
        append_to_path(path, ".notfound"), NoFile),
      append_to_path(path, ".badsha256"), NoFile)

\* Nor are the .part of a manifest and its sidecar once the call has
\* returned an error: every download of a manifest is forced.
Abandoned(tree, channel) ==
    WriteFile(
      WriteFile(tree, append_to_path(channel_path(channel), ".part"), NoFile),
      append_to_path(channel_path(channel), ".part.sha256"), NoFile)

\* sync_rustup_channel, up to the spawning of the tasks: the manifest is
\* downloaded (forced) to its .part with its sidecar, the download list is
\* read from it, and both files are moved into place.  A request may meet
\* a transport failure, a 404 page, or a document that is no manifest
\* (with the sidecar of that document); the first k attempts at the
\* manifest meet the same trouble and the later ones are served well.
sync_rustup_channel ==
    /\ ru_pc = "channel"
    /\ step <= Len(Plan)
    /\ step <= 3 => keep[Plan[step]] # 0
    /\ history0' = history
    /\ task_errors' = 0
    /\ errors_occurred' = 0
    /\ requested' = Request(Plan[step], channel_url(Plan[step]))
    /\ LET channel == Plan[step]
           good == OriginManifest(channel, today)
           good_sha == OriginManifestSha256(channel, today)
       IN
       \E sha_resp \in IF faults < MaxFaults
                        THEN {good_sha, SendError,
                              Whole(200, Sha256File(NotAManifest))}
                        ELSE {good_sha} :
       \E bad \in IF faults < MaxFaults
                   THEN {SendError, Whole(404, ErrorPage),
                         Whole(200, NotAManifest)}
                   ELSE {SendError} :
       \E k \in IF faults < MaxFaults THEN 0..(MirrorRetries + 1) ELSE {0} :
         LET resps == [i \in 1..(MirrorRetries + 1) |->
                         IF i <= k THEN bad ELSE good]
             hit == sha_resp # good_sha
                      \/ \E i \in DOMAIN resps : resps[i] # good
             part == channel_part_path(channel)
         IN
         \E dl \in {download_with_sha256_file(manifests, part, MirrorRetries,
                                              TRUE, sha_resp, resps)} :
         \E l \in {rustup_download_list(channel, ReadFile(dl.tree, part))} :
         /\ hit => faults < MaxFaults
         /\ faults' = faults + FaultCount(hit)
         /\ IF dl.res.kind # "Ok"
            THEN /\ manifests' = Abandoned(Unread(dl.tree, part), channel)
                 /\ ChannelFailed(ChRes(dl.res.kind, 0))
                 /\ UNCHANGED <<date, files, tasks, dist>>
            ELSE IF ~l.ok
            THEN /\ manifests' = Abandoned(Unread(dl.tree, part), channel)
                 /\ ChannelFailed(ChRes("Parse", 0))
                 /\ UNCHANGED <<date, files, tasks, dist>>
            ELSE /\ manifests' =
                      move_if_exists_with_sha256(Unread(dl.tree, part),
                                                 part, channel_path(channel))
                 /\ date' = l.date
                 /\ files' = l.files
                 /\ tasks' = l.files
                 /\ dist' = dist \cup
                      {<<"dist", <<"channel-rust-", channel, ".toml">>>>}
                 /\ ru_pc' = "targets"
                 /\ UNCHANGED <<failures, ch_res, step, failed_channels>>
    /\ UNCHANGED <<keep, pinned_rust_versions, history, today, dist0,
                   cleaned>>
    /\ UNCHANGED <<dlvars, pkgvars, invars, vfvars, rivars,
                   batchvars, gitvars>>

\* The tally of one task result in sync_rustup_channel.
CountsAsError(kind) == kind \notin {"Ok", "NotFound"}

\* sync_one_rustup_target, one task, and the tally of its result.
sync_one_rustup_target(url) ==
    /\ ru_pc = "targets"
    /\ url \in tasks
    /\ \E resps \in IF faults < MaxFaults THEN RuAttempts(url)
                     ELSE {Healthy(url)} :
         \E d \in {download(FsAt(dist, split_slash(url)), RuHash(url),
                             MirrorRetries, FALSE, resps)} :
         LET p == split_slash(url)
             n == IF CountsAsError(d.res.kind) THEN 1 ELSE 0
         IN  /\ dist' = PutFs(dist, p, d.fs)
             /\ errors_occurred' = errors_occurred + n
             /\ task_errors' = task_errors
                   + (IF d.res.kind \notin {"Ok", "NotFound"} THEN 1 ELSE 0)
             /\ faults' = faults + (IF resps = Healthy(url) THEN 0 ELSE 1)
    /\ tasks' = tasks \ {url}
    /\ UNCHANGED <<keep, pinned_rust_versions, history, ru_pc, step, date,
                   files, failures, today, history0, ch_res, dist0, cleaned,
                   failed_channels>>
    /\ UNCHANGED <<requested, manifests>>
    /\ UNCHANGED <<dlvars, pkgvars, invars, vfvars, rivars,
                   batchvars, gitvars>>

\* get_channel_history.
get_channel_history(h, channel) == h[channel]

\* add_to_channel_history: the entry of `d` is inserted (or replaced).
\* HashMap::insert: the value of an existing key is replaced.
insert(versions, d, fl) ==
    {g \in versions : g.date # d} \cup {Generation(d, fl)}

add_to_channel_history_fresh(h, channel, d, fl) ==
    [h EXCEPT ![channel] =
       [exists |-> TRUE, versions |-> {Generation(d, fl)}]]
add_to_channel_history(h, channel, d, fl) ==
    LET old == get_channel_history(h, channel)
        cur == IF old = NoHistory THEN {} ELSE old.versions
    IN  [h EXCEPT ![channel] =
           [exists |-> TRUE, versions |-> insert(cur, d, fl)]]

\* The channel's history after sync_rustup_channel tallied n errors.
HistoryAfter_always(h, channel, d, fl, n) ==
    add_to_channel_history(h, channel, d, fl)
HistoryAfter(h, channel, d, fl, n) ==
    IF n = 0 THEN add_to_channel_history(h, channel, d, fl) ELSE h

\* sync_rustup_channel, after the tasks: the history is written when no
\* error was counted, FailedDownloads is returned otherwise.
sync_rustup_channel_end ==
    /\ ru_pc = "targets"
    /\ tasks = {}
    /\ history' = HistoryAfter(history, Plan[step], date, files,
                               errors_occurred)
    /\ IF errors_occurred = 0
       THEN /\ ch_res' = ChRes("Ok", 0)
            /\ ru_pc' = "channel"
            /\ step' = step + 1
            /\ UNCHANGED <<failures, failed_channels>>
       ELSE ChannelFailed(ChRes("FailedDownloads", errors_occurred))
    /\ UNCHANGED <<keep, pinned_rust_versions, dist, date, files, tasks,
                   errors_occurred, today, faults, task_errors, history0,
                   dist0,
                   cleaned>>
    /\ UNCHANGED <<requested, manifests>>
    /\ UNCHANGED <<dlvars, pkgvars, invars, vfvars, rivars,
                   batchvars, gitvars>>

\* latest_dates_from_channel_history: the keys sorted, reversed and
\* truncated to `versions`.
RECURSIVE sort(_)
sort(S) ==
    IF S = {} THEN <<>>
    ELSE LET m == CHOOSE x \in S : \A y \in S \ {x} : DateLess(x, y)
         IN  <<m>> \o sort(S \ {m})
RECURSIVE reverse(_)
reverse(s) == IF s = <<>> THEN <<>> ELSE reverse(Tail(s)) \o <<Head(s)>>
truncate(s, n) == IF Len(s) <= n THEN s ELSE SubSeq(s, 1, n)
latest_dates_from_channel_history_oldest(channel_history, versions) ==
    truncate(sort({g.date : g \in channel_history.versions}), versions)
latest_dates_from_channel_history(channel_history, versions) ==
    truncate(reverse(sort({g.date : g \in channel_history.versions})),
             versions)

\* The paths that the dates `dts` of a history contribute to files_to_keep.
PathsUnder(channel_history, dts) ==
    UNION {{split_slash(t) : t \in g.files} :
             g \in {x \in channel_history.versions :
                      \E i \in 1..Len(dts) : dts[i] = x.date}}

\* clean_old_files, first loop: `get_channel_history(path, channel)?`
\* returns the error of a channel that has a retention count.
HistoryReadFails(h, k) ==
    \E i \in 1..3 : /\ k[MainChannels[i]] # NoKeep
                    /\ get_channel_history(h, MainChannels[i]) = NoHistory

\* files_to_keep of clean_old_files.
files_to_keep(h, k, pinned) ==
    UNION {IF k[MainChannels[i]] = NoKeep
              \/ get_channel_history(h, MainChannels[i]) = NoHistory
           THEN {}
           ELSE PathsUnder(h[MainChannels[i]],
                  latest_dates_from_channel_history(
                      h[MainChannels[i]], k[MainChannels[i]])) :
             i \in 1..3}
      \cup
    UNION {IF get_channel_history(h, pinned[j]) = NoHistory THEN {}
           ELSE PathsUnder(h[pinned[j]],
                  latest_dates_from_channel_history(h[pinned[j]], 1)) :
             j \in 1..Len(pinned)}

\* The walk of clean_old_files: the entries of the directories of dist/.
InSubdirOfDist(p) == Len(p) = 3 /\ p[1] = "dist"

\* clean_old_files: what it returns and the files it leaves.
clean_old_files(d, h, k, pinned) ==
    IF HistoryReadFails(h, k)
    THEN [res |-> "Err", dist |-> d]
    ELSE [res |-> "Ok",
          dist |-> {p \in d : InSubdirOfDist(p)
                                => p \in files_to_keep(h, k, pinned)}]

\* sync: cleanup is skipped when no retention count is set, or when a
\* channel sync failed.
NoRetention(k) == \A i \in 1..3 : k[MainChannels[i]] = NoKeep
CleanupSkipped_never(k, failed) == NoRetention(k)
CleanupSkipped(k, failed) == NoRetention(k) \/ failed

\* sync, the cleanup step and the end of the run.
clean_step ==
    /\ ru_pc = "channel"
    /\ step > Len(Plan)
    /\ dist0' = dist
    /\ IF CleanupSkipped(keep, failures)
       THEN /\ cleaned' = "skipped"
            /\ UNCHANGED dist
       ELSE LET c == clean_old_files(dist, history, keep,
                                     pinned_rust_versions)
            IN  /\ cleaned' = c.res
                /\ dist' = c.dist
    /\ ru_pc' = "idle"
    /\ step' = 0
    /\ UNCHANGED <<keep, pinned_rust_versions, history, date, files, tasks,
                   errors_occurred, failures, today, faults, task_errors,
                   history0,
                   ch_res, failed_channels>>
    /\ UNCHANGED <<requested, manifests>>
    /\ UNCHANGED <<dlvars, pkgvars, invars, vfvars, rivars,
                   batchvars, gitvars>>

RuNext ==
    \/ sync_begin
    \/ skip_channel
    \/ sync_rustup_channel
    \/ \E url \in Urls : sync_one_rustup_target(url)
    \/ sync_rustup_channel_end
    \/ clean_step

\* ------------------------------------------------ the interactive verify
\* The characters of an input line.
DigitChars == <<"0", "1", "2", "3", "4", "5">>
Space == " "
Dash == "-"
Newline == "\n"
Chars == {DigitChars[i] : i \in 1..Len(DigitChars)} \cup {Space, Dash, "x"}

\* The missing crates verify_mirror hands over: n distinct candidates.
Candidate(i) == 10 + i
MissingCrates(n) == [i \in 1..n |-> Candidate(i)]

\* What stdin().read_line leaves: the number of bytes read and the buffer.
\* End of input reads nothing; a line ends with "\n", the last line of the
\* input may lack it.
Texts == UNION {[1..n -> Chars] : n \in 0..MaxInput}
ReadLines ==
    {[n |-> 0, buf |-> <<>>]}
        \cup {[n |-> Len(t) + 1, buf |-> t \o <<Newline>>] : t \in Texts}
        \cup {[n |-> Len(t), buf |-> t] : t \in Texts \ {<<>>}}

\* str::parse::<usize>: the value of a non-empty string of digits.
ParseErr == -1
IsDigit(c) == \E i \in 1..Len(DigitChars) : DigitChars[i] = c
DigitVal(c) == (CHOOSE i \in 1..Len(DigitChars) : DigitChars[i] = c) - 1
RECURSIVE DecimalValue(_)
DecimalValue(s) ==
    IF s = <<>> THEN 0
    ELSE 10 * DecimalValue(SubSeq(s, 1, Len(s) - 1)) + DigitVal(s[Len(s)])
parse_usize(s) ==
    IF s = <<>> \/ \E i \in 1..Len(s) : ~IsDigit(s[i]) THEN ParseErr
    ELSE DecimalValue(s)

\* str::contains and str::split on one character.
contains(s, c) == \E i \in 1..Len(s) : s[i] = c
RECURSIVE split(_, _)
split(s, c) ==
    IF ~contains(s, c) THEN <<s>>
    ELSE LET i == CHOOSE j \in 1..Len(s) :
                      s[j] = c /\ \A k \in 1..(j - 1) : s[k] # c
         IN  <<SubSeq(s, 1, i - 1)>> \o split(SubSeq(s, i + 1, Len(s)), c)

\* filter_map(|s| match s.parse() { Ok(u) if u != 0 => Some(u), _ => None })
RECURSIVE filter_map_keepzero(_)
filter_map_keepzero(pieces) ==
    IF pieces = <<>> THEN <<>>
    ELSE LET u == parse_usize(Head(pieces))
         IN  (IF u # ParseErr THEN <<u>> ELSE <<>>)
                 \o filter_map_keepzero(Tail(pieces))
RECURSIVE filter_map(_)
filter_map(pieces) ==
    IF pieces = <<>> THEN <<>>
    ELSE LET u == parse_usize(Head(pieces))
         IN  (IF u # ParseErr /\ u # 0 THEN <<u>> ELSE <<>>)
                 \o filter_map(Tail(pieces))

\* Vec<usize>::sort_unstable.
sort_unstable_asis(v) == v
RECURSIVE sort_unstable(_)
sort_unstable(v) ==
    IF v = <<>> THEN <<>>
    ELSE LET m == CHOOSE i \in 1..Len(v) : \A j \in 1..Len(v) : v[i] <= v[j]
         IN  <<v[m]>> \o sort_unstable(SubSeq(v, 1, m - 1)
                                         \o SubSeq(v, m + 1, Len(v)))

\* enum Input, with 0-based indices.
InputRange(start, end) == [tag |-> "Range", a |-> start, b |-> end, v |-> <<>>]
InputVec(v) == [tag |-> "Vec", a |-> 0, b |-> 0, v |-> v]
InputUsize(u) == [tag |-> "Usize", a |-> u, b |-> 0, v |-> <<>>]
InputIgnore == [tag |-> "Ignore", a |-> 0, b |-> 0, v |-> <<>>]

\* <Input as FromStr>::from_str
from_str(s) ==
    IF s = <<>> \/ (contains(s, Space) /\ contains(s, Dash)) THEN InputIgnore
    ELSE IF contains(s, Space)
    THEN LET result == filter_map(split(s, Space))
         IN  IF Len(result) = 1 THEN InputUsize(result[1] - 1)
             ELSE IF result # <<>>
             THEN InputVec([i \in 1..Len(result) |->
                               sort_unstable(result)[i] - 1])
             ELSE InputIgnore
    ELSE IF contains(s, Dash)
    THEN LET bounds == filter_map(split(s, Dash))
         IN  IF Len(bounds) = 2
             THEN LET start == bounds[1] - 1
                      end == bounds[2] - 1
                  IN  IF start < end THEN InputRange(start, end)
                      ELSE IF start = end THEN InputUsize(start)
                      ELSE InputIgnore
             ELSE InputIgnore
    ELSE LET u == parse_usize(s)
         IN  IF u = ParseErr \/ u = 0 THEN InputIgnore
             ELSE InputUsize(u - 1)

\* Input::check
check_ignore(input, length) ==
    CASE input.tag = "Range" -> input.b < length
      [] input.tag = "Usize" -> input.a < length
      [] input.tag = "Vec" -> \A i \in 1..Len(input.v) : input.v[i] < length
      [] OTHER -> TRUE
check(input, length) ==
    CASE input.tag = "Range" -> input.b < length
      [] input.tag = "Usize" -> input.a < length
      [] input.tag = "Vec" -> \A i \in 1..Len(input.v) : input.v[i] < length
      [] OTHER -> FALSE

\* What handle_user_input returns, or the panic that ends it.
Selected(mc) == [kind |-> "Ok", crates |-> mc]
Panicked == [kind |-> "Panic", crates |-> <<>>]
NotAsked == [kind |-> "none", crates |-> <<>>]

\* Vec::remove(u) for each u of `indices` in turn: the element at the
\* 0-based index u is taken out and the rest shifts left; an index that is
\* not below the current length panics.
RECURSIVE remove_each(_, _)
remove_each(mc, indices) ==
    IF indices = <<>> THEN Selected(mc)
    ELSE IF Head(indices) >= Len(mc) THEN Panicked
    ELSE remove_each(SubSeq(mc, 1, Head(indices))
                         \o SubSeq(mc, Head(indices) + 2, Len(mc)),
                     Tail(indices))

\* handle_user_input after read_line returned `rd`.
UserSelection(mc, rd) ==
    IF rd.n = 0 THEN Selected(mc)
    ELSE LET popped == SubSeq(rd.buf, 1, Len(rd.buf) - 1)
             input == from_str(popped)
         IN  IF check(input, Len(mc)) THEN Selected(<<>>)
             ELSE CASE input.tag = "Ignore" -> Selected(mc)
                    [] input.tag = "Range" ->
                         remove_each(mc,
                             [i \in 1..(input.b - input.a + 1) |->
                                 input.a + i - 1])
                    [] input.tag = "Usize" ->
                         IF input.a >= Len(mc) THEN Panicked
                         ELSE Selected(<<mc[input.a + 1]>>)
                    [] input.tag = "Vec" -> remove_each(mc, input.v)

InFresh ==
    interactive = [missing_crates |-> <<>>, read |-> [n |-> 0, buf |-> <<>>],
                   input |-> [InputIgnore EXCEPT !.tag = "none"],
                   selection |-> NotAsked, pc |-> "idle"]

\* The interactive verify is left out.
InParked == interactive = Parked

\* verify_mirror returned Some(missing_crates) and the run is interactive.
verify_found(n) ==
    /\ interactive.pc = "idle"
    /\ interactive' = [missing_crates |-> MissingCrates(n),
                       read |-> [n |-> 0, buf |-> <<>>],
                       input |-> [InputIgnore EXCEPT !.tag = "none"],
                       selection |-> NotAsked, pc |-> "prompt"]
    /\ UNCHANGED <<dlvars, pkgvars, ruvars, vfvars, rivars,
                   batchvars, gitvars>>

\* handle_user_input: the candidates are listed, one line is read and the
\* crates to download are returned.
handle_user_input ==
    /\ interactive.pc = "prompt"
    /\ \E rd \in ReadLines :
         interactive' =
           [interactive EXCEPT
              !.read = rd,
              !.input = IF rd.n = 0 THEN @
                        ELSE from_str(SubSeq(rd.buf, 1, Len(rd.buf) - 1)),
              !.selection = UserSelection(interactive.missing_crates, rd),
              !.pc = "idle"]
    /\ UNCHANGED <<dlvars, pkgvars, ruvars, vfvars, rivars,
                   batchvars, gitvars>>

InNext ==
    \/ \E n \in 1..MaxMissing : verify_found(n)
    \/ handle_user_input

\* ------------------------------------------------- the verifier's report
\* The crates of the index the verifier is run on, as (name, vers).
VfCrates == {<<"a", "0.0.1">>, <<"a", "0.0.2">>, <<"glib-2-0-sys", "0.0.1">>}

\* CRATES_403 (its entries among VfCrates).
CRATES_403 == {<<"glib-2-0-sys", "0.0.1">>}

\* A line of the local index head: absent, or present with its `yanked`
\* field; CrateEntry has no such field, serde_json drops it.
IndexLines == {"absent", "live", "yanked"}
ParsedEntries(index) == {c \in VfCrates : index[c] # "absent"}

\* vendor_path / cargo_lock_filepath: None, or the entries they name.
NoAllowList == [given |-> FALSE, entries |-> {}]
AllowLists ==
    {NoAllowList} \cup {[given |-> TRUE, entries |-> S] : S \in SUBSET VfCrates}

\* The loop of verify_mirror over the lines of the head: missing_crates.
missing_crates_of(index, allow, present) ==
    {c \in ParsedEntries(index) :
        /\ ~(allow.given /\ c \notin allow.entries)
        /\ c \notin CRATES_403
        /\ c \notin present}

VfFresh ==
    \E index \in [VfCrates -> IndexLines], allow \in AllowLists :
        verifier = [index |-> index, allow |-> allow, present |-> {},
                    missing |-> {}, pc |-> "idle"]

\* The verifier is left out.
VfParked == verifier = Parked

\* verify_mirror: the head is walked and the missing crates are returned.
verify_report ==
    /\ verifier.pc = "idle"
    /\ verifier' =
         [verifier EXCEPT
            !.missing = missing_crates_of(verifier.index, verifier.allow,
                                          verifier.present),
            !.pc = "reported"]
    /\ UNCHANGED <<dlvars, pkgvars, ruvars, invars, rivars,
                   batchvars, gitvars>>

\* Between two runs of the verifier an archive is stored at its path.
archive_stored(c) ==
    /\ verifier.pc = "reported"
    /\ c \notin verifier.present
    /\ verifier' = [verifier EXCEPT !.present = verifier.present \cup {c},
                                    !.pc = "idle"]
    /\ UNCHANGED <<dlvars, pkgvars, ruvars, invars, rivars,
                   batchvars, gitvars>>

VfNext ==
    \/ verify_report
    \/ \E c \in VfCrates : archive_stored(c)

\* ------------------------------------------------- rustup-init installers
\* The platforms of the two lists; i586-pc-windows-msvc is in both.
PLATFORMS_UNIX == {"x86_64-unknown-linux-gnu", "i586-pc-windows-msvc"}
PLATFORMS_WINDOWS == {"i586-pc-windows-msvc", "x86_64-pc-windows-msvc"}

\* mirror.retries, as passed to sync_rustup_init.
RiRetries == 1

\* `if is_exe { "rustup-init.exe" } else { "rustup-init" }`
InstallerName(is_exe) == IF is_exe THEN "rustup-init.exe" ELSE "rustup-init"

\* rustup/dist has no version directory.
NoVersion == 0

\* A path below rustup/: <dir>/[<version>/]<platform>/<file><suffix>.
RiPath(dir, version, platform, file) ==
    [dir |-> dir, version |-> version, platform |-> platform, file |-> file,
     suffix |-> ""]

\* path.join("rustup").join("archive").join(rustup_version).join(platform)
\*     .join(<file>)
local_path(version, platform, is_exe) ==
    RiPath("archive", version, platform, InstallerName(is_exe))

\* path.join("rustup/dist").join(platform).join(<file>)
archive_path(platform, is_exe) ==
    RiPath("dist", NoVersion, platform, InstallerName(is_exe))

\* The installer of release v, and the release file naming v.
InstallerBody(v) == [i \in 1..v |-> 0]
ReleaseToml(v) == <<v>>

\* get_rustup_version: the `version` key of the release file, or the error
\* of toml::from_str for a document that is no release file.
get_rustup_version(release_data) ==
    IF Len(release_data) = 1 /\ Head(release_data) >= 1
    THEN [ok |-> TRUE, version |-> Head(release_data)]
    ELSE [ok |-> FALSE, version |-> NoVersion]

\* The origin has rustup-init.exe for a Windows target and rustup-init for
\* any other, each with its .sha256.
OriginHas(platform, file) ==
    (file = "rustup-init.exe") <=> (platform \in PLATFORMS_WINDOWS)

OriginInstaller(platform, file, release) ==
    IF OriginHas(platform, file) THEN Whole(200, InstallerBody(release))
    ELSE Whole(404, ErrorPage)

OriginSha256(platform, file, release) ==
    IF OriginHas(platform, file)
    THEN Whole(200, Sha256File(InstallerBody(release)))
    ELSE Whole(404, ErrorPage)

\* copy_file_create_dir: `if to.exists() { return Ok(()); }`, then fs::copy.
copy_file_create_dir(tree, from, to) ==
    IF ReadFile(tree, to) # NoFile THEN tree
    ELSE WriteFile(tree, to, ReadFile(tree, from))

\* copy_file_create_dir_with_sha256: the sidecar first, then the file.
copy_file_create_dir_with_sha256(tree, from, to) ==
    copy_file_create_dir(
        copy_file_create_dir(tree, append_to_path(from, ".sha256"),
                             append_to_path(to, ".sha256")),
        from, to)

\* The body of sync_one_init.
sync_one_init_of(tree, platform, is_exe, version, r, sha_resp, resps) ==
    LET d == download_with_sha256_file(tree, local_path(version, platform, is_exe),
                                       r, FALSE, sha_resp, resps)
    IN  IF d.res.kind # "Ok" THEN d
        ELSE [tree |-> copy_file_create_dir_with_sha256(
                           d.tree, local_path(version, platform, is_exe),
                           archive_path(platform, is_exe)),
              res |-> Ok]

\* The is_exe argument sync_rustup_init passes for a platform of
\* platforms.unix.iter().chain(platforms.windows.iter()).
IsExeArgument(platform) == FALSE

\* A transport failure is met at most MaxFaults times.
Faulty(resps) == \E i \in DOMAIN resps : resps[i] = SendError

\* The installer synchronizer before its first run, for `platforms`.
RiStart(platforms) ==
    [release |-> 1, platforms |-> platforms, files |-> NoTree,
     release_toml |-> NoFile, release_part |-> NoFile, release_fetches |-> 0,
     rustup_version |-> NoVersion, pc |-> "idle",
     tasks |-> {}, errors_occurred |-> 0, result |-> "none", synced |-> {},
     fetched |-> {}, faults |-> 0]

RiFresh ==
    \E platforms \in [unix : SUBSET PLATFORMS_UNIX,
                      windows : SUBSET PLATFORMS_WINDOWS] :
        installer = RiStart(platforms)

\* The installer synchronizer is left out.
RiParked == installer = Parked

\* The origin publishes the next rustup release.
origin_release ==
    /\ installer.release < MaxReleases
    /\ installer' = [installer EXCEPT !.release = installer.release + 1]
    /\ UNCHANGED <<dlvars, pkgvars, ruvars, invars, vfvars,
                   batchvars, gitvars>>

\* sync_rustup_init up to the spawning of the tasks: the release file is
\* downloaded to its .part (the destination of this download), read, and
\* moved into place.  The origin answers with the release file, or with a
\* page that is neither 403 nor 404 and no release file, or not at all.
sync_rustup_init ==
    /\ installer.pc = "idle"
    /\ LET good == Whole(200, ReleaseToml(installer.release)) IN
       \E resps \in [1..(RiRetries + 1) ->
                        {good, Whole(500, ErrorPage), SendError}] :
         LET d == download([EmptyFs EXCEPT !.dest = installer.release_part],
                           NoHash, RiRetries, FALSE, resps)
             met == installer.faults
                      + FaultCount(\E i \in DOMAIN resps : resps[i] # good)
             v == get_rustup_version(d.fs.dest)
         IN
         /\ met <= MaxFaults
         /\ IF d.res.kind # "Ok"
            THEN installer' = [installer EXCEPT !.faults = met,
                                                !.release_part = d.fs.dest,
                                                !.release_fetches = d.fetches,
                                                !.result = "Download"]
            ELSE IF ~v.ok
            THEN installer' = [installer EXCEPT !.faults = met,
                                                !.release_part = d.fs.dest,
                                                !.release_fetches = d.fetches,
                                                !.result = "Parse"]
            ELSE installer' =
                   [installer EXCEPT
                      !.faults = met,
                      !.release_fetches = d.fetches,
                      !.rustup_version = v.version,
                      !.release_toml = d.fs.dest,
                      !.release_part = NoFile,
                      !.tasks = installer.platforms.unix
                                  \cup installer.platforms.windows,
                      !.errors_occurred = 0,
                      !.synced = {},
                      !.fetched = {},
                      !.result = "running",
                      !.pc = "syncing"]
    /\ UNCHANGED <<dlvars, pkgvars, ruvars, invars, vfvars,
                   batchvars, gitvars>>

\* One spawned task: sync_one_init for `platform`, and the arm of
\* `for res in tasks` that looks at its result.
sync_one_init(platform) ==
    /\ installer.pc = "syncing"
    /\ platform \in installer.tasks
    /\ LET is_exe == IsExeArgument(platform)
           file == InstallerName(is_exe)
           answer == OriginInstaller(platform, file, installer.release)
       IN
       \E sha_resp \in {OriginSha256(platform, file, installer.release),
                        SendError},
          resps \in [1..(RiRetries + 1) -> {answer, SendError}] :
         LET met == installer.faults
                      + FaultCount(sha_resp = SendError \/ Faulty(resps))
             d == sync_one_init_of(installer.files, platform, is_exe,
                                   installer.rustup_version, RiRetries,
                                   sha_resp, resps)
         IN
         /\ met <= MaxFaults
         /\ installer' =
              [installer EXCEPT
                 !.faults = met,
                 !.files = d.tree,
                 !.errors_occurred =
                    IF d.res.kind \in {"Ok", "NotFound"} THEN @ ELSE @ + 1,
                 !.synced = IF d.res.kind = "Ok" THEN @ \cup {platform} ELSE @,
                 !.fetched = @ \cup {[platform |-> platform, file |-> file]},
                 !.tasks = @ \ {platform}]
    /\ UNCHANGED <<dlvars, pkgvars, ruvars, invars, vfvars,
                   batchvars, gitvars>>

\* The end of sync_rustup_init: `if errors_occurred == 0`.
sync_rustup_init_end ==
    /\ installer.pc = "syncing"
    /\ installer.tasks = {}
    /\ installer' =
         [installer EXCEPT
            !.pc = "idle",
            !.result = IF installer.errors_occurred = 0 THEN "Ok"
                       ELSE "FailedDownloads"]
    /\ UNCHANGED <<dlvars, pkgvars, ruvars, invars, vfvars,
                   batchvars, gitvars>>

RiNext ==
    \/ origin_release
    \/ sync_rustup_init
    \/ \E platform \in PLATFORMS_UNIX \cup PLATFORMS_WINDOWS :
          sync_one_init(platform)
    \/ sync_rustup_init_end

\* ------------------------------------------------- the three batch phases
\* The largest download_threads the phases are run with.
MaxThreads == 2

\* `.buffer_unordered(8)`
BufferUnordered == 8

\* A task of a batch: the list its item came from and the path its
\* download writes to.
Task(list, dest) == [list |-> list, dest |-> dest]

\* sync_crates_files: one task for every line of the diff.
CratesTasks(entries) ==
    {Task("index", file_path(e.name, e.vers)) : e \in entries}

\* sync_rustup_init: one task for every platform of
\* platforms.unix.iter().chain(platforms.windows.iter()).
InitTasks(platforms, version) ==
    {Task("unix", local_path(version, platform, IsExeArgument(platform))) :
        platform \in platforms.unix}
      \cup
    {Task("windows", local_path(version, platform, IsExeArgument(platform))) :
        platform \in platforms.windows}

\* sync_rustup_channel: one task for every url of the download list.
ChannelTasks(channel, d) ==
    {Task("manifest", split_slash(url)) : url \in ManifestFiles(channel, d)}

\* The tasks that may run at a time: the size of the pool of
\* sync_crates_files, the buffer of the two streams of rustup.rs.
InFlightLimit(phase, download_threads) ==
    IF phase = "crates" THEN download_threads ELSE BufferUnordered

NoBatch == [phase |-> "none", download_threads |-> 1, todo |-> {},
            in_flight |-> {}]

BatchFresh == batch = NoBatch

\* The batch phases are left out.
BatchParked == batch = Parked

\* sync_crates_files: Pool::new(crates.download_threads) and the tasks of
\* the diff.
crates_pool ==
    /\ batch.phase = "none"
    /\ \E download_threads \in 1..MaxThreads, entries \in SUBSET Entries :
         batch' = [phase |-> "crates", download_threads |-> download_threads,
                   todo |-> CratesTasks(entries), in_flight |-> {}]
    /\ UNCHANGED <<dlvars, pkgvars, ruvars, invars, vfvars, rivars, gitvars>>

\* sync_rustup_init: the stream of its tasks, for the platforms of
\* get_platforms (the two default lists when mirror.toml names none).
init_stream ==
    /\ batch.phase = "none"
    /\ \E download_threads \in 1..MaxThreads,
          platforms \in [unix : SUBSET PLATFORMS_UNIX,
                         windows : SUBSET PLATFORMS_WINDOWS] :
         batch' = [phase |-> "init", download_threads |-> download_threads,
                   todo |-> InitTasks(platforms, 1), in_flight |-> {}]
    /\ UNCHANGED <<dlvars, pkgvars, ruvars, invars, vfvars, rivars, gitvars>>

\* sync_rustup_channel: the stream of its tasks.
channel_stream ==
    /\ batch.phase = "none"
    /\ \E download_threads \in 1..MaxThreads, t \in 1..Len(Dates) :
         batch' = [phase |-> "channel", download_threads |-> download_threads,
                   todo |-> ChannelTasks("nightly", Dates[t]),
                   in_flight |-> {}]
    /\ UNCHANGED <<dlvars, pkgvars, ruvars, invars, vfvars, rivars, gitvars>>

\* A thread of the pool takes a task (scoped.execute), or the stream polls
\* its next item and the closure spawns the task (tokio::spawn).
task_starts(t) ==
    /\ batch.phase # "none"
    /\ t \in batch.todo
    /\ Cardinality(batch.in_flight)
         < InFlightLimit(batch.phase, batch.download_threads)
    /\ batch' = [batch EXCEPT !.todo = @ \ {t}, !.in_flight = @ \cup {t}]
    /\ UNCHANGED <<dlvars, pkgvars, ruvars, invars, vfvars, rivars, gitvars>>

\* A task returns.
task_returns(t) ==
    /\ t \in batch.in_flight
    /\ batch' = [batch EXCEPT !.in_flight = @ \ {t}]
    /\ UNCHANGED <<dlvars, pkgvars, ruvars, invars, vfvars, rivars, gitvars>>

\* The pool is joined, or the stream is collected.
batch_collected ==
    /\ batch.phase # "none"
    /\ batch.todo = {}
    /\ batch.in_flight = {}
    /\ batch' = NoBatch
    /\ UNCHANGED <<dlvars, pkgvars, ruvars, invars, vfvars, rivars, gitvars>>

BatchNext ==
    \/ crates_pool
    \/ init_stream
    \/ channel_stream
    \/ \E t \in batch.todo : task_starts(t)
    \/ \E t \in batch.in_flight : task_returns(t)
    \/ batch_collected

\* ------------------------------------------------------- the git gateway
\* The largest request body, in chunks, the most header lines of an
\* answer, and the requests of a run.
MaxChunks == 2
MaxHeaders == 2
MaxRequests == 2

GitIdle(served) ==
    [pc |-> "idle", body |-> 0, git_input |-> FALSE, stdin |-> 0,
     cgi |-> "none", to_eof |-> FALSE, lines |-> 0, stdout |-> <<>>,
     headers |-> 0, served |-> served]

GitFresh == gateway = GitIdle(0)

\* The gateway is left out.
GitParked == gateway = Parked

\* handle_git up to cmd.spawn(): the subprocess runs with both pipes;
\* p.stdin is moved into git_input.
handle_git ==
    /\ gateway.pc = "idle"
    /\ gateway.served < MaxRequests
    /\ \E chunks \in 0..MaxChunks, to_eof \in BOOLEAN, lines \in 0..MaxHeaders :
         gateway' = [gateway EXCEPT !.pc = "forwarding", !.body = chunks,
                                    !.git_input = TRUE, !.stdin = 0,
                                    !.cgi = "reading", !.to_eof = to_eof,
                                    !.lines = lines, !.stdout = <<>>,
                                    !.headers = 0]
    /\ UNCHANGED <<dlvars, pkgvars, ruvars, invars, vfvars, rivars, batchvars>>

\* One turn of `while let Some(Ok(mut buf)) = body.next().await`:
\* git_input.write_all_buf(&mut buf), whose error ends the request.
write_all_buf ==
    /\ gateway.pc = "forwarding"
    /\ gateway.body > 0
    /\ IF gateway.cgi = "exited"
       THEN gateway' = [gateway EXCEPT !.pc = "responded", !.git_input = FALSE]
       ELSE gateway' = [gateway EXCEPT !.body = @ - 1, !.stdin = @ + 1]
    /\ UNCHANGED <<dlvars, pkgvars, ruvars, invars, vfvars, rivars, batchvars>>

\* body.next() gives None: the loop ends and the handler goes on to the
\* headers.  git_input is a local of handle_git and stays alive.
body_forwarded ==
    /\ gateway.pc = "forwarding"
    /\ gateway.body = 0
    /\ gateway' = [gateway EXCEPT !.pc = "headers"]
    /\ UNCHANGED <<dlvars, pkgvars, ruvars, invars, vfvars, rivars, batchvars>>

\* One turn of the header loop: read_line gives a line, or nothing at the
\* end of the output; an empty line ends the loop, the response is built
\* and handle_git returns, which drops git_input.
read_line ==
    /\ gateway.pc = "headers"
    /\ gateway.stdout # <<>> \/ gateway.cgi = "exited"
    /\ IF gateway.stdout = <<>> \/ Head(gateway.stdout) = ""
       THEN gateway' = [gateway EXCEPT !.pc = "responded", !.git_input = FALSE]
       ELSE gateway' = [gateway EXCEPT !.stdout = Tail(@), !.headers = @ + 1]
    /\ UNCHANGED <<dlvars, pkgvars, ruvars, invars, vfvars, rivars, batchvars>>

\* The response has gone out; the gateway waits for the next request.
request_served ==
    /\ gateway.pc = "responded"
    /\ gateway' = GitIdle(gateway.served + 1)
    /\ UNCHANGED <<dlvars, pkgvars, ruvars, invars, vfvars, rivars, batchvars>>

\* The subprocess reads a chunk of its input.
cgi_reads ==
    /\ gateway.cgi \in {"reading", "draining"}
    /\ gateway.stdin > 0
    /\ gateway' = [gateway EXCEPT !.stdin = @ - 1]
    /\ UNCHANGED <<dlvars, pkgvars, ruvars, invars, vfvars, rivars, batchvars>>

\* The subprocess sees the end of its input: the pipe is empty and no
\* write end is open.  One that has not answered yet answers now; one that
\* has is done.
cgi_sees_eof ==
    /\ gateway.cgi \in {"reading", "draining"}
    /\ gateway.stdin = 0
    /\ ~gateway.git_input
    /\ gateway' = [gateway EXCEPT
                      !.cgi = IF @ = "reading" THEN "answering" ELSE "exited"]
    /\ UNCHANGED <<dlvars, pkgvars, ruvars, invars, vfvars, rivars, batchvars>>

\* A subprocess that does not wait for the end of its input answers.
cgi_answers ==
    /\ gateway.cgi = "reading"
    /\ ~gateway.to_eof
    /\ gateway' = [gateway EXCEPT !.cgi = "answering"]
    /\ UNCHANGED <<dlvars, pkgvars, ruvars, invars, vfvars, rivars, batchvars>>

\* The subprocess writes a header line, or the blank line after the last
\* one; then it exits, or it reads what is left of its input first.
cgi_writes ==
    /\ gateway.cgi = "answering"
    /\ IF gateway.lines > 0
       THEN gateway' = [gateway EXCEPT !.lines = @ - 1,
                                       !.stdout = Append(@, "Key: value")]
       ELSE \E then \in {"exited", "draining"} :
              gateway' = [gateway EXCEPT !.stdout = Append(@, ""),
                                         !.cgi = then]
    /\ UNCHANGED <<dlvars, pkgvars, ruvars, invars, vfvars, rivars, batchvars>>

\* The steps of the handler and those of the subprocess.
HandlerStep ==
    handle_git \/ write_all_buf \/ body_forwarded \/ read_line
        \/ request_served
CgiStep == cgi_reads \/ cgi_sees_eof \/ cgi_answers \/ cgi_writes

GitNext ==
    \/ handle_git
    \/ write_all_buf
    \/ body_forwarded
    \/ read_line
    \/ request_served
    \/ cgi_reads
    \/ cgi_sees_eof
    \/ cgi_answers
    \/ cgi_writes

\* ------------------------------------------------------ specifications
Init == DlParked /\ PkgFresh /\ RuParked /\ InParked /\ VfParked /\ RiParked
          /\ BatchParked /\ GitParked

Next ==
    \/ \E n \in Names, v \in Versions \cup {BadLine} : upstream_publish(n, v)
    \/ \E n \in Names : upstream_remove(n)
    \/ sync_crates_repo
    \/ sync_crates_files
    \/ \E e \in Entries : sync_one_crate_entry(e)
    \/ update_crates_config
    \/ rewrite
    \/ verify_mirror
    \/ fix_mirror

Spec == Init /\ [][Next]_vars
\* The Downloader alone, on one destination.
DlInit == DlFresh /\ PkgParked /\ RuParked /\ InParked /\ VfParked /\ RiParked
          /\ BatchParked /\ GitParked

SpecDl == DlInit /\ [][DlNext]_vars

\* The rustup synchronizer alone.
RuInit == DlParked /\ PkgParked /\ RuFresh /\ InParked /\ VfParked /\ RiParked
          /\ BatchParked /\ GitParked

SpecRu == RuInit /\ [][RuNext]_vars

\* The interactive selection of verify alone.
InInit == DlParked /\ PkgParked /\ RuParked /\ InFresh /\ VfParked /\ RiParked
          /\ BatchParked /\ GitParked

SpecIn == InInit /\ [][InNext]_vars

\* The report of the verifier alone.
VfInit == DlParked /\ PkgParked /\ RuParked /\ InParked /\ VfFresh /\ RiParked
          /\ BatchParked /\ GitParked

SpecVf == VfInit /\ [][VfNext]_vars

\* The installer synchronizer alone.
RiInit ==
    DlParked /\ PkgParked /\ RuParked /\ InParked /\ VfParked /\ RiFresh
          /\ BatchParked /\ GitParked

SpecRi == RiInit /\ [][RiNext]_vars

\* The batch phases alone.
BatchInit ==
    DlParked /\ PkgParked /\ RuParked /\ InParked /\ VfParked /\ RiParked
          /\ BatchFresh /\ GitParked

SpecBatch == BatchInit /\ [][BatchNext]_vars

\* The git gateway alone.  The runtime polls a handler that can go on and
\* the system runs a subprocess that can.
GitInit ==
    DlParked /\ PkgParked /\ RuParked /\ InParked /\ VfParked /\ RiParked
          /\ BatchParked /\ GitFresh

SpecGit == GitInit /\ [][GitNext]_vars

SpecGitFair == SpecGit /\ WF_vars(HandlerStep) /\ WF_vars(CgiStep)

\* ------------------------------------------------ properties: Downloader
\* The call has returned to its caller.
Returned == dl_pc = "returned"

\* The step model and the function one_download agree on every finished
\* attempt that failed (sanity of the model, not a claim).
StepsAgreeWithFunction ==
    (dl_pc \in {"loop", "returned"} /\ last \notin {"none", "good"})
        => res = one_download(fs, hash, http_res).res

\* C3 as stated: for every initial state of dest, once download(.., hash =
\* h, ..) has returned, a file at dest has SHA-256 h.
C3_AnyInitialDest ==
    (Returned /\ hash # NoHash /\ fs.dest # NoFile)
        => Sha256Hex(fs.dest) = hash

\* C3 amended: once download(.., hash = h, ..) has returned, a file at dest
\* has SHA-256 h or is the very file that was at dest before the call; so
\* the hash is h whenever dest was absent or matched h before the call.
C3_HashOrUntouched ==
    (Returned /\ hash # NoHash /\ fs.dest # NoFile)
        => /\ (Sha256Hex(fs.dest) = hash \/ fs.dest = dest0)
           /\ ((dest0 = NoFile \/ Sha256Hex(dest0) = hash)
                  => Sha256Hex(fs.dest) = hash)

C3_Witness ==
    /\ Returned /\ hash # NoHash /\ fetches >= 1
    /\ dest0 # NoFile /\ Sha256Hex(dest0) # hash
    /\ fs.dest # dest0 /\ Sha256Hex(fs.dest) = hash

\* C4: the body is written to dest.part only; dest changes only by the
\* rename of a .part holding the whole body, after the hash check passed
\* when a hash is expected; while a call runs and has not renamed, dest is
\* what it was before the call.
C4_DestOnlyByRename ==
    [][ /\ (fs'.dest # fs.dest =>
              /\ dl_pc = "hashed"
              /\ BodyComplete(http_res)
              /\ fs.part = http_res.body
              /\ (hash = NoHash \/ Sha256Hex(http_res.body) = hash)
              /\ fs'.dest = http_res.body
              /\ fs'.part = NoFile)
        /\ (dl_pc' \in {"loop", "sent", "forbidden", "body", "hashed"}
              => fs'.dest = dest0')
      ]_vars

C4_Witness ==
    /\ dl_pc = "hashed" /\ hash # NoHash
    /\ Len(http_res.body) >= 1 /\ fs.part = http_res.body
    /\ dest0 # NoFile /\ fs.dest = dest0 /\ fs.dest # fs.part

\* Steps left before the call returns: bounded below by 0, decreased by
\* every step of a running call.
Rank ==
    LET W == MaxBody + 5
        before == (retries + 1 - iter) * W
    IN  CASE dl_pc = "loop"      -> before
          [] dl_pc = "sent"      -> before + MaxBody + 4
          [] dl_pc = "forbidden" -> before + MaxBody + 3
          [] dl_pc = "body"      -> before + MaxBody + 2 - pos
          [] dl_pc = "hashed"    -> before + 1
          [] OTHER               -> 0

\* C6: download ends after at most retries+1 fetches (every step of a
\* running call decreases Rank, which is never negative); no fetch follows
\* a successful attempt; when every attempt failed, all retries+1 were made
\* and the result is the error of the last one.
C6_BoundedRetries ==
    [][ /\ fetches' <= retries' + 1
        /\ Rank' >= 0
        /\ (dl_pc \notin {"idle", "returned"} => Rank' < Rank)
        /\ (last' = "good" => dl_pc' = "returned")
        /\ ((dl_pc' = "returned" /\ fetches' >= 1 /\ last' # "good")
              => /\ fetches' = retries' + 1
                 /\ res' = one_download(fs', hash', http_res').res
                 /\ res'.kind # "Ok")
      ]_vars

C6_Witness ==
    /\ Returned /\ retries >= 1 /\ fetches = retries + 1
    /\ last = "not_found" /\ res.kind = "NotFound"

\* C7: when every attempt of a call received a whole body whose SHA-256
\* differs from the expected hash, download returns MismatchedHash{expected,
\* actual}, dest is still absent if it was absent before, and dest.badsha256
\* holds the hash of the body received last.
C7_AllMismatched ==
    (Returned /\ fetches >= 1 /\ all_bad)
        => /\ res = ErrMismatchedHash(hash, Sha256Hex(http_res.body))
           /\ (dest0 = NoFile => fs.dest = NoFile)
           /\ fs.badsha256 = <<Sha256Hex(http_res.body)>>

C7_Witness ==
    /\ Returned /\ fetches >= 2 /\ all_bad /\ dest0 = NoFile
    /\ fs.badsha256 # NoFile

\* C8: an attempt answered with status 403 or 404 (status and body
\* received) has written "Server returned <status>: <body>" to
\* dest.notfound, failed with NotFound{status, url, data = body}, and dest
\* is as it was before the call.
C8_NotFoundSidecar ==
    (dl_pc \in {"loop", "returned"} /\ last = "not_found")
        => /\ http_res.status \in {403, 404}
           /\ fs.notfound = NotFoundText(http_res.status, http_res.body)
           /\ res = ErrNotFound(http_res.status, http_res.body)
           /\ fs.dest = dest0

C8_Witness ==
    /\ Returned /\ last = "not_found" /\ http_res.status = 403
    /\ Len(http_res.body) >= 1 /\ dest0 # NoFile
    /\ fs.notfound = NotFoundText(403, http_res.body)

\* C9 as stated: after any sequence of download calls, no dest.part lies
\* beside a dest that a successful download put in place.
C9_NeverPartBesideArtifact ==
    (Returned /\ artifact) => fs.part = NoFile

\* C9 amended: when a download call returns after one of its attempts
\* succeeded, no dest.part exists and dest holds the body received (a later
\* call that fetches again and fails leaves its .part beside that dest).
C9_NoPartAfterSuccess ==
    (Returned /\ last = "good")
        => (fs.part = NoFile /\ fs.dest = http_res.body /\ artifact)

C9_Witness ==
    /\ Returned /\ last = "good" /\ fetches >= 2
    /\ fs.part = NoFile /\ fs.dest # NoFile

\* ----------------------------------------------- properties: package sync
\* The tree a run diffs from when the local branch is `m`.
TreeOf(m) == IF m = NoCommit THEN EmptyTree ELSE m.tree

\* The entries of the index files that differ between two trees.
ChangedEntries(old, new) ==
    {e \in AllEntries(new) : old.files[e.name] # new.files[e.name]}

\* A sync run has just ended normally.
SyncEnded == pc = "idle" /\ ended = "sync_ok"

\* C1: in a sync run on an existing repository the fetch step leaves
\* refs/heads/master alone, and master is set to refs/remotes/origin/master
\* only once the diff is computed and every scheduled download is over.
C1_FastForwardAfterDownloads ==
    [][ repo_exists =>
          /\ ((pc = "idle" /\ pc' = "repo_synced")
                => heads_master' = heads_master)
          /\ ((heads_master' # heads_master /\ heads_master' = origin_master')
                => (pc = "downloading" /\ queue = {}))
      ]_vars

\* C2: at the end of a sync run the downloads attempted are exactly those
\* of the entries of the index files that differ between the pre-run local
\* head tree (the empty tree without a local branch) and the fetched
\* remote head tree.
C2_ChangedEntriesAttempted ==
    SyncEnded =>
        attempted = ChangedEntries(TreeOf(master0), origin_master.tree)

\* C5: at the end of a sync run every stored archive belongs to an entry
\* of the local index head and has the SHA-256 recorded there.
C5_ArchivesMatchIndex ==
    SyncEnded =>
        \A n \in Names, v \in Versions :
            crates[file_path(n, v)] # NoFile
                => \E e \in AllEntries(heads_master.tree) :
                       /\ e.name = n /\ e.vers = v
                       /\ Sha256Hex(crates[file_path(n, v)]) = e.cksum

\* Every entry of tree t has its archive in the mirror, hash matching.
AllPresent(t) ==
    \A e \in AllEntries(t) :
        /\ crates[file_path(e.name, e.vers)] # NoFile
        /\ Sha256Hex(crates[file_path(e.name, e.vers)]) = e.cksum

\* C10: a download task that finds its archive present with the recorded
\* hash sends no request and changes no file; a sync run whose fetched
\* index equals the pre-run local head and whose archives are all present
\* sends no archive request and ends ok; download called without force on
\* an archive that is stored when a run ends, with the recorded hash or
\* with no expected hash, fetches nothing, returns Ok and leaves the files
\* as they are.
C10_NoFetchWhenUpToDate ==
    [][ /\ \A e \in Entries :
             ( /\ e \in queue /\ e \notin queue'
               /\ crates[file_path(e.name, e.vers)] # NoFile
               /\ Sha256Hex(crates[file_path(e.name, e.vers)]) = e.cksum )
                 => (net_fetches' = net_fetches /\ crates' = crates)
        /\ ( /\ pc' = "idle"
             /\ pc \in {"repo_synced", "downloading"}
             /\ master0 # NoCommit
             /\ master0.tree.files = origin_master.tree.files
             /\ AllPresent(origin_master.tree) )
               => (ended' = "sync_ok" /\ net_fetches' = 0)
        /\ \A e \in Entries : \A h \in {e.cksum, NoHash} :
             LET f == [EmptyFs EXCEPT
                         !.dest = crates[file_path(e.name, e.vers)]]
             IN  ( /\ pc # "idle" /\ pc' = "idle"
                   /\ f.dest # NoFile
                   /\ (h = NoHash \/ Sha256Hex(f.dest) = h) )
                   => \A resps \in Attempts(e) :
                        LET d == download(f, h, MirrorRetries, FALSE, resps)
                        IN  d.fetches = 0 /\ d.res = Ok /\ d.fs = f
      ]_vars

C10_Witness ==
    /\ SyncEnded /\ net_fetches = 0
    /\ master0 # NoCommit
    /\ master0.tree.files = origin_master.tree.files
    /\ AllEntries(origin_master.tree) # {}
    /\ AllPresent(origin_master.tree)

\* The commit HEAD resolves to.
HeadCommit == IF HEAD = Str_refname THEN heads_master ELSE NoCommit

\* C17: after a package sync run that ended without error with base_url
\* set to B, the tree of refs/heads/master holds a config.json whose dl is
\* B followed by "/{crate}/{crate}-{version}.crate" and whose api is B.
C17_ConfigRewritten ==
    (SyncEnded /\ base_url # NoBaseUrl)
        => /\ heads_master.tree.config.dl =
                base_url \o <<"/", "{crate}", "/", "{crate}-{version}.crate">>
           /\ heads_master.tree.config.api = base_url

C17_Witness ==
    /\ SyncEnded /\ base_url = BaseUrl
    /\ master0.rw > 0
    /\ heads_master.rw = 1
    /\ heads_master.tree.files = origin_master.tree.files
    /\ heads_master.tree.config.api = BaseUrl
    /\ origin_master.tree.config = UpstreamConfigJson

\* A step that runs rewrite_config_json: the end of a sync run with
\* base_url set, or the rewrite command.
RewriteStep ==
    /\ base_url # NoBaseUrl
    /\ pc' = "idle"
    /\ \/ pc = "downloading" /\ ended' = "sync_ok"
       \/ pc = "idle" /\ ended' = "rewrite_ok" /\ pushes' = pushes

\* A step that fast-forwards an existing repository.
FastForwardStep == repo_exists /\ pc = "idle" /\ pc' = "repo_synced"

\* C18: a config rewrite always puts one more commit on refs/heads/master,
\* whose parent is the commit master held, even when config.json already
\* has the content written; the next fast-forward discards it: after it
\* master and HEAD are the commit of refs/remotes/origin/master and the
\* config.json of the checkout is the upstream one, whatever local commits
\* master held before.
C18_RewriteCommitsFastForwardDiscards ==
    [][ /\ RewriteStep =>
             /\ heads_master'.rw = heads_master.rw + 1
             /\ heads_master'.gen = heads_master.gen
             /\ heads_master'.tree.files = heads_master.tree.files
        /\ FastForwardStep =>
             /\ origin_master' = upstream
             /\ heads_master' = origin_master'
             /\ HeadCommit' = origin_master'
             /\ worktree'.config = upstream.tree.config
             /\ worktree' = origin_master'.tree
      ]_vars

C18_Witness ==
    /\ pc = "repo_synced"
    /\ master0.rw = MaxRewrites
    /\ master0.tree.config = config_json(BaseUrl)
    /\ heads_master = origin_master
    /\ heads_master.rw = 0
    /\ worktree.config = UpstreamConfigJson

\* A sync run that got past the fetch is over, normally or by a panic.
RunOver == pc = "idle" /\ ended \in {"sync_ok", "sync_panicked"}

\* The index files of `old` that `new` no longer has (new OID zero).
RemovedFiles(old, new) ==
    {n \in Names : old.files[n] # AbsentFile /\ new.files[n] = AbsentFile}

\* C19: when the remote head lacks an index file the pre-run local head
\* had, the sync run still completes, no archive of an entry of that file
\* is left in the mirror, and every other archive is as it was when the
\* run began.
C19_RemovalPropagated ==
    (RunOver /\ RemovedFiles(TreeOf(master0), origin_master.tree) # {})
        => /\ ended = "sync_ok"
           /\ \A n \in Names, v \in Versions :
                IF /\ n \in RemovedFiles(TreeOf(master0), origin_master.tree)
                   /\ CrateEntry(n, v) \in LinesOf(master0.tree, n)
                THEN /\ crates[file_path(n, v)] = NoFile
                     /\ crates[get_crate_path(n, v)] = NoFile
                ELSE /\ crates[file_path(n, v)] = crates0[file_path(n, v)]
                     /\ crates[get_crate_path(n, v)] =
                            crates0[get_crate_path(n, v)]

\* The changed index files of `new` that hold a malformed line.
MalformedFiles(old, new) ==
    {n \in diff_tree_to_tree(old, new) :
        new.files[n] # AbsentFile /\ BadLine \in new.files[n]}

\* C20: when a changed index file holds a line that is not a CrateEntry,
\* the sync run does not abort and the download of every well-formed line
\* of every changed index file is still attempted.
C20_MalformedLineSkipped ==
    (RunOver /\ MalformedFiles(TreeOf(master0), origin_master.tree) # {})
        => /\ ended = "sync_ok"
           /\ ChangedEntries(TreeOf(master0), origin_master.tree)
                \subseteq attempted

\* verify_mirror reads the index of the local head and skips a malformed
\* line: the repair run attempts the well-formed entries that miss their
\* archive, whatever else the files hold.
VerifySkipsMalformedLines ==
    [][ (pc = "idle" /\ pc' = "repairing")
          => queue' = {e \in Entries :
                         /\ heads_master.tree.files[e.name] # AbsentFile
                         /\ e.vers \in heads_master.tree.files[e.name]
                         /\ crates[get_crate_path(e.name, e.vers)] = NoFile}
      ]_vars

\* C21: a task of the package batch takes its own entry off the queue and
\* nothing else, whatever it returns; its failure is printed unless the
\* result is Ok, NotFound or MismatchedHash; the batch ends only when every
\* scheduled entry has been attempted, and then the run ends ok.
C21_BatchRunsToEnd ==
    [][ /\ \A e \in Entries :
             (e \in queue /\ e \notin queue')
               => /\ queue' = queue \ {e}
                  /\ pc' = pc
                  /\ results'[e] # "none"
                  /\ attempted' = attempted \cup {e}
                  /\ (e \in reported')
                        <=> (results'[e] \notin
                               {"Ok", "NotFound", "MismatchedHash"})
        /\ (pc \in {"downloading", "repairing"} /\ pc' = "idle")
               => /\ attempted = scheduled
                  /\ \A e \in scheduled : results[e] # "none"
                  /\ ended' \in {"sync_ok", "verify_ok"}
      ]_vars

C21_Witness ==
    /\ pc = "repairing" /\ queue = {}
    /\ Cardinality(scheduled) = 2
    /\ attempted = scheduled
    /\ \E e \in scheduled : results[e] = "Download" /\ e \in reported
    /\ \E e \in scheduled : results[e] \in {"NotFound", "MismatchedHash"}
                               /\ e \notin reported

\* C22: the archive of (name, vers) is stored at the sharded path
\* crates/<shard>/<name>/<vers>/<name>-<vers>.crate, which is also the path
\* the gateway reads: a task that returned Ok leaves the archive there,
\* and the writer's path is the reader's path.
C22_StoredAtShardedPath ==
    \A e \in Entries :
        results[e] = "Ok"
            => /\ file_path(e.name, e.vers) = get_crate_path(e.name, e.vers)
               /\ crates[get_crate_path(e.name, e.vers)] # NoFile

\* ---------------------------------------------------- properties: rustup
\* The dates of a history file.
DatesOf(h) == {g.date : g \in h.versions}

\* The n greatest dates of a history file.
RetainedDates(h, n) ==
    {d \in DatesOf(h) :
        Cardinality({e \in DatesOf(h) : DateLess(d, e)}) < n}

\* The paths a history file lists under the dates D.
ListedUnder(h, D) ==
    UNION {{split_slash(t) : t \in g.files} :
             g \in {x \in h.versions : x.date \in D}}

\* The keep-set: the paths under the K greatest dates of each channel
\* with a retention count K, and under the newest date of each pinned
\* version.  A history that cannot be read lists nothing.
KeepSet ==
    UNION {IF keep[MainChannels[i]] = NoKeep THEN {}
           ELSE ListedUnder(history[MainChannels[i]],
                  RetainedDates(history[MainChannels[i]],
                                keep[MainChannels[i]])) : i \in 1..3}
      \cup
    UNION {ListedUnder(history[pinned_rust_versions[j]],
                       RetainedDates(history[pinned_rust_versions[j]], 1)) :
             j \in 1..Len(pinned_rust_versions)}

\* This step is the return of a channel sync to sync.
ChannelReturns ==
    /\ ru_pc \in {"channel", "targets"}
    /\ step \in 1..Len(Plan)
    /\ step' # step
    /\ ch_res'.kind # "skipped"

\* This step is the cleanup step of a run, and cleanup is not skipped.
CleanupRuns ==
    /\ ru_pc = "channel"
    /\ step > Len(Plan)
    /\ failed_channels = {}
    /\ \E i \in 1..3 : keep[MainChannels[i]] # NoKeep

\* C11: a channel sync in which at least one target download ended with
\* an error other than NotFound returns FailedDownloads(n), n the number
\* of such downloads, and leaves the channel's history file as it was
\* when the channel sync began.
C11_FailedDownloads ==
    [][ (ru_pc = "targets" /\ ru_pc' # "targets" /\ task_errors > 0)
          => /\ ch_res' = ChRes("FailedDownloads", task_errors)
             /\ history'[Plan[step]] = history0[Plan[step]]
             /\ history' = history
      ]_vars

C11_Witness ==
    /\ ru_pc = "channel"
    /\ ch_res.kind = "FailedDownloads"
    /\ ch_res.count = task_errors
    /\ task_errors > 0

\* C12 as claimed: every successful channel sync adds exactly one date to
\* the channel's history file, every unsuccessful one adds none.
C12_OneMorePerSuccess ==
    [][ ChannelReturns =>
          Cardinality(DatesOf(history'[Plan[step]])) =
            Cardinality(DatesOf(history[Plan[step]]))
              + (IF ch_res'.kind = "Ok" THEN 1 ELSE 0)
      ]_vars

\* C12 as amended: a successful channel sync makes the manifest's date a
\* key of the history file and keeps the other keys, so the number of
\* dates grows by one when the date is new and stays when it is already
\* there; an unsuccessful channel sync leaves the file unchanged.
C12_OneMorePerNewDate ==
    [][ ChannelReturns =>
          IF ch_res'.kind = "Ok"
          THEN /\ history'[Plan[step]].exists
               /\ DatesOf(history'[Plan[step]]) =
                    DatesOf(history[Plan[step]]) \cup {date}
               /\ Cardinality(DatesOf(history'[Plan[step]])) =
                    Cardinality(DatesOf(history[Plan[step]]))
                      + (IF date \in DatesOf(history[Plan[step]])
                         THEN 0 ELSE 1)
               /\ \A c \in AllChannels \ {Plan[step]} :
                    history'[c] = history[c]
          ELSE history' = history
      ]_vars

C12_Witness ==
    /\ ru_pc = "channel"
    /\ step > 1
    /\ ch_res.kind = "Ok"
    /\ history0[Plan[step - 1]].exists
    /\ Cardinality(DatesOf(history[Plan[step - 1]])) =
         Cardinality(DatesOf(history0[Plan[step - 1]])) + 1

\* C13 as claimed: after a cleanup, every file the histories list under a
\* retained date exists on disk.
C13_RetainedFilesExist ==
    (ru_pc = "idle" /\ cleaned = "Ok") => KeepSet \subseteq dist

\* C13 as amended: a cleanup removes no file the histories list under a
\* retained date: every such file that was on disk before the cleanup is
\* on disk after it.
C13_RetainedFilesSurvive ==
    (ru_pc = "idle" /\ cleaned # "none") => (KeepSet \cap dist0) \subseteq dist

C13_Witness ==
    /\ ru_pc = "idle"
    /\ cleaned = "Ok"
    /\ dist # dist0
    /\ \E i \in 1..3 :
         /\ keep[MainChannels[i]] # NoKeep
         /\ Cardinality(DatesOf(history[MainChannels[i]]))
              > keep[MainChannels[i]]
    /\ KeepSet \cap dist # {}

\* C14: a cleanup deletes exactly the files directly inside a directory
\* of dist/ whose path is not in the keep-set.
C14_DeletesExactlyUnkept ==
    [][ CleanupRuns =>
          dist' = {p \in dist : InSubdirOfDist(p) => p \in KeepSet}
      ]_vars

\* The statement of C14 for the cleanups in which every history file
\* with a retention count can be read.
CleanupDeletesUnkeptWhenReadable ==
    [][ (CleanupRuns /\ ~HistoryReadFails(history, keep)) =>
          dist' = {p \in dist : InSubdirOfDist(p) => p \in KeepSet}
      ]_vars

\* C15: in a run in which a channel sync returned an error no file is
\* deleted, nor is any when the three retention counts are absent.
C15_NoCleanupAfterFailure ==
    [][ ( \/ failed_channels' # {}
          \/ \A i \in 1..3 : keep[MainChannels[i]] = NoKeep )
          => dist \subseteq dist'
      ]_vars

C15_Witness ==
    /\ ru_pc = "idle"
    /\ cleaned = "skipped"
    /\ failed_channels # {}
    /\ \E i \in 1..3 : keep[MainChannels[i]] # NoKeep
    /\ ~HistoryReadFails(history, keep)
    /\ \E p \in dist : InSubdirOfDist(p) /\ p \notin KeepSet

\* C16: a cleanup that cannot read the history file of a channel still
\* completes, that channel adding nothing to the keep-set.
C16_UnreadableHistoryTolerated ==
    [][ ( /\ CleanupRuns
          /\ \E c \in AllChannels :
               /\ ~history[c].exists
               /\ \/ \E j \in 1..Len(pinned_rust_versions) :
                       pinned_rust_versions[j] = c
                  \/ \E i \in 1..3 : /\ MainChannels[i] = c
                                     /\ keep[c] # NoKeep )
          => /\ cleaned' = "Ok"
             /\ dist' = {p \in dist : InSubdirOfDist(p) => p \in KeepSet}
      ]_vars

\* C27: for the pinned channel nightly-<date> the manifest is asked for at
\* dist/<date>/channel-rust-nightly.toml.
C27_DatedNightlyManifestUrl ==
    requested.channel = PinnedNightly
        => requested.url =
             <<"dist", "/", PinnedNightlyDate, "/",
               <<"channel-rust-", "nightly", ".toml">>>>

\* The .sha256 beside the manifest of `channel`.
ManifestSidecar(channel) ==
    <<"dist", "/", <<"channel-rust-", channel, ".toml", ".sha256">>>>

\* C30: the generation a successful channel sync appends lists every
\* artifact of the download list and, besides them, the channel manifest
\* and its .sha256.
C30_GenerationListsManifest ==
    [][ (ChannelReturns /\ ch_res'.kind = "Ok") =>
          \A g \in history'[Plan[step]].versions :
              g.date = date =>
                /\ files \subseteq g.files
                /\ channel_url(Plan[step]) \in g.files
                /\ ManifestSidecar(Plan[step]) \in g.files
      ]_vars

\* What the code appends: the download list and nothing else.
GenerationIsDownloadList ==
    [][ (ChannelReturns /\ ch_res'.kind = "Ok") =>
          \A g \in history'[Plan[step]].versions :
              g.date = date => g.files = files
      ]_vars

\* ------------------------------------------ properties: interactive verify
\* handle_user_input has returned or panicked.
Asked == interactive.pc = "idle" /\ interactive.selection # NotAsked

\* The line the user types for the 1-based index k, and a typed line t.
Dec(k) == <<DigitChars[k + 1]>>
Typed(t) == t \o <<Newline>>

\* The crates selected, as a set.
SelectedSet == {interactive.selection.crates[i] : i \in 1..Len(interactive.selection.crates)}

\* C23: an in-range selection returns exactly the named candidates: the
\* line "k" the k-th candidate alone, the line "a b" the a-th and the b-th,
\* the line "a-b" the candidates a through b.
C23_InRangeSelection ==
    Asked =>
        \A a \in 1..Len(interactive.missing_crates), b \in 1..Len(interactive.missing_crates) :
            /\ interactive.read.buf = Typed(Dec(a))
                 => interactive.selection = Selected(<<interactive.missing_crates[a]>>)
            /\ (a # b /\ interactive.read.buf = Typed(Dec(a) \o <<Space>> \o Dec(b)))
                 => /\ interactive.selection.kind = "Ok"
                    /\ Len(interactive.selection.crates) = 2
                    /\ SelectedSet = {interactive.missing_crates[a], interactive.missing_crates[b]}
            /\ (a <= b /\ interactive.read.buf = Typed(Dec(a) \o <<Dash>> \o Dec(b)))
                 => interactive.selection = Selected(SubSeq(interactive.missing_crates, a, b))

\* C24: the line "0", and a line naming an index above the number of
\* candidates (alone, in a list or as the end of a range), return no crate
\* and do not panic.
C24_OutOfRangeSelectsNothing ==
    Asked =>
        /\ interactive.read.buf = Typed(Dec(0)) => interactive.selection = Selected(<<>>)
        /\ \A a \in 1..Len(interactive.missing_crates) :
             \A k \in (Len(interactive.missing_crates) + 1)..(Len(DigitChars) - 1) :
                ( \/ interactive.read.buf = Typed(Dec(k))
                  \/ interactive.read.buf = Typed(Dec(a) \o <<Space>> \o Dec(k))
                  \/ interactive.read.buf = Typed(Dec(k) \o <<Space>> \o Dec(a))
                  \/ interactive.read.buf = Typed(Dec(a) \o <<Dash>> \o Dec(k)) )
                    => interactive.selection = Selected(<<>>)

\* C25: an empty line and the end of the input select every missing
\* candidate.
C25_EmptySelectsAll ==
    (Asked /\ (interactive.read.n = 0 \/ interactive.read.buf = Typed(<<>>)))
        => interactive.selection = Selected(interactive.missing_crates)

C25_Witness ==
    /\ Asked
    /\ interactive.read.buf = Typed(<<>>)
    /\ Len(interactive.missing_crates) >= 2
    /\ interactive.selection = Selected(interactive.missing_crates)

\* ------------------------------------------ properties: verifier's report
\* C26: the verifier reports (name, vers) as missing if and only if it is
\* an entry of the local index head, is not on the 403 exemption list, is
\* not yanked, is in the allow-list when one is supplied, and its archive
\* path does not exist (verify_mirror has no argument to include yanked
\* entries).
C26_ReportedIffMissing ==
    verifier.pc = "reported" =>
        \A c \in VfCrates :
            c \in verifier.missing
                <=> /\ verifier.index[c] # "absent"
                    /\ c \notin CRATES_403
                    /\ verifier.index[c] # "yanked"
                    /\ (verifier.allow.given => c \in verifier.allow.entries)
                    /\ c \notin verifier.present

\* The same without the condition on yanked entries: what verify_mirror
\* reports.
ReportedIffMissingYankedIncluded ==
    verifier.pc = "reported" =>
        \A c \in VfCrates :
            c \in verifier.missing
                <=> /\ verifier.index[c] # "absent"
                    /\ c \notin CRATES_403
                    /\ (verifier.allow.given => c \in verifier.allow.entries)
                    /\ c \notin verifier.present

\* ------------------------------------------- properties: rustup-init
\* The installer name of a target: rustup-init.exe on Windows.
Installer(T) ==
    IF T \in PLATFORMS_WINDOWS THEN "rustup-init.exe" ELSE "rustup-init"

SameFileAndSidecar(p, q) ==
    /\ ReadFile(installer.files, p) = ReadFile(installer.files, q)
    /\ ReadFile(installer.files, append_to_path(p, ".sha256"))
         = ReadFile(installer.files, append_to_path(q, ".sha256"))

\* C28: once the installer of target T has been synced at version V,
\* rustup/dist/<T>/<installer> and its .sha256 have the content of
\* rustup/archive/V/<T>/<installer> and its .sha256.
C28_DistHoldsLatestInstaller ==
    \A T \in installer.synced :
        SameFileAndSidecar(RiPath("dist", NoVersion, T, Installer(T)),
                           RiPath("archive", installer.rustup_version, T, Installer(T)))

\* C29: a Windows target is fetched and stored as rustup-init.exe, a Unix
\* target as rustup-init: every request names the installer of its target,
\* and after a run without error each selected target has its installer
\* under rustup/archive/V/<T>/ and under rustup/dist/<T>/.
C29_WindowsInstallerIsExe ==
    /\ \A q \in installer.fetched : q.file = Installer(q.platform)
    /\ (installer.pc = "idle" /\ installer.result = "Ok")
         => \A T \in installer.platforms.unix \cup installer.platforms.windows :
              /\ RiPath("archive", installer.rustup_version, T, Installer(T))
                   \in DOMAIN installer.files
              /\ RiPath("dist", NoVersion, T, Installer(T)) \in DOMAIN installer.files

\* What the code does for every target: the name without extension.
InstallerFetchedWithoutExtension ==
    \A q \in installer.fetched : q.file = "rustup-init"

\* ----------------------------------------- properties: verify input
\* The string handed to from_str, and the places of a character in it.
ParsedText == SubSeq(interactive.read.buf, 1, Len(interactive.read.buf) - 1)
PlacesOf(c) == {i \in 1..Len(ParsedText) : ParsedText[i] = c}
LineParsed == Asked /\ interactive.read.n > 0

\* A piece is a positive integer.
Positive(piece) == parse_usize(piece) \notin {ParseErr, 0}

\* C35: an input "x-y" with one dash and no space is Range(x-1 ..= y-1)
\* for positive integers x < y, Usize(x-1) for x = y, Ignore for x > y, and
\* Ignore when x or y is 0 or no number.
C35_DashInput ==
    (LineParsed /\ Cardinality(PlacesOf(Dash)) = 1 /\ PlacesOf(Space) = {})
      => LET d == CHOOSE i \in PlacesOf(Dash) : TRUE
             xs == SubSeq(ParsedText, 1, d - 1)
             ys == SubSeq(ParsedText, d + 1, Len(ParsedText))
             x == parse_usize(xs)
             y == parse_usize(ys)
         IN  interactive.input =
               IF ~Positive(xs) \/ ~Positive(ys) THEN InputIgnore
               ELSE IF x < y THEN InputRange(x - 1, y - 1)
               ELSE IF x = y THEN InputUsize(x - 1)
               ELSE InputIgnore

C35_Witness ==
    /\ LineParsed
    /\ ParsedText = Dec(1) \o <<Dash>> \o Dec(2)
    /\ interactive.input = InputRange(0, 1)

\* The tokens of a line with spaces: each begins after a space or at the
\* start and runs to the next space or the end.
TokenStarts == {0} \cup PlacesOf(Space)
TokenAt(a) ==
    LET ends == {b \in PlacesOf(Space) \cup {Len(ParsedText) + 1} : b > a}
        b == CHOOSE e \in ends : \A f \in ends : e <= f
    IN  SubSeq(ParsedText, a + 1, b - 1)
KeptTokens == {a \in TokenStarts : Positive(TokenAt(a))}

\* C36: an input with spaces and no dash drops the tokens that are 0 or no
\* number; nothing left is Ignore, one value n left is Usize(n-1), more are
\* Vec of the values less one in ascending order.  An input with a space
\* and a dash is Ignore.
C36_SpaceInput ==
    /\ (LineParsed /\ PlacesOf(Space) # {} /\ PlacesOf(Dash) # {})
          => interactive.input = InputIgnore
    /\ (LineParsed /\ PlacesOf(Space) # {} /\ PlacesOf(Dash) = {})
          => LET got == interactive.input IN
             IF KeptTokens = {} THEN got = InputIgnore
             ELSE IF Cardinality(KeptTokens) = 1
             THEN \A a \in KeptTokens :
                     got = InputUsize(parse_usize(TokenAt(a)) - 1)
             ELSE /\ got.tag = "Vec"
                  /\ Len(got.v) = Cardinality(KeptTokens)
                  /\ \A i \in 1..(Len(got.v) - 1) : got.v[i] <= got.v[i + 1]
                  /\ \A n \in 0..(10 * Len(DigitChars)) :
                        Cardinality({i \in 1..Len(got.v) : got.v[i] = n}) =
                          Cardinality({a \in KeptTokens :
                                         parse_usize(TokenAt(a)) = n + 1})

C36_Witness ==
    /\ LineParsed
    /\ ParsedText = Dec(2) \o <<Space>> \o Dec(1)
    /\ interactive.input = InputVec(<<0, 1>>)

\* A run of sync_rustup_init begins (and, when it fails, ends) in this step.
InstallerRunStep ==
    /\ installer.pc = "idle"
    /\ installer' # installer
    /\ installer'.release = installer.release

\* C33: every installer run asks the origin for rustup/release-stable.toml
\* and takes V from the document it has just fetched, whatever earlier runs
\* left behind.
C33_FreshReleaseFile ==
    [][ InstallerRunStep =>
          /\ installer'.release_fetches >= 1
          /\ installer'.pc = "syncing"
                => installer'.rustup_version = installer.release
      ]_vars

\* What the code does: a run that begins with release-stable.toml.part in
\* place asks the origin for nothing and reads that file.
StalePartIsReadAgain ==
    [][ (InstallerRunStep /\ installer.release_part # NoFile) =>
          /\ installer'.release_fetches = 0
          /\ IF get_rustup_version(installer.release_part).ok
             THEN /\ installer'.pc = "syncing"
                  /\ installer'.rustup_version
                       = get_rustup_version(installer.release_part).version
             ELSE /\ installer'.result = "Parse"
                  /\ installer'.release_part = installer.release_part
      ]_vars

\* A run begins with a release-stable.toml.part that is no release file.
StalePartMet ==
    /\ installer.pc = "idle"
    /\ installer.result = "Parse"
    /\ installer.release_part = ErrorPage
    /\ installer.release_fetches = 0

\* A step of the rewrite command.
RewriteCommandStep ==
    /\ pc = "idle"
    /\ pc' = "idle"
    /\ ended' = "rewrite_ok"
    /\ heads_master' # heads_master

\* C34: the rewrite command fast-forwards refs/heads/master to
\* refs/remotes/origin/master before it commits config.json: the commit it
\* makes is the first local commit on top of the origin/master commit and
\* carries its index files, so repeated rewrites do not stack.
C34_RewriteOnOriginMaster ==
    [][ RewriteCommandStep =>
          /\ heads_master'.gen = origin_master.gen
          /\ heads_master'.rw = origin_master.rw + 1
          /\ heads_master'.tree.files = origin_master.tree.files
      ]_vars

\* What the code does: the rewrite commit is made on top of whatever commit
\* master holds, a rewrite commit of an earlier run included.
RewritesStacked ==
    /\ pc = "idle"
    /\ ended = "rewrite_ok"
    /\ heads_master.rw = 2
    /\ heads_master.gen = origin_master.gen

\* A sync run on a repository an earlier run has cloned or fast-forwarded,
\* the index files upstream being the ones the local branch had when the
\* run began.
LaterRunUnchangedUpstream ==
    /\ \/ pc \in {"repo_synced", "downloading", "unwinding"}
       \/ RunOver
    /\ master0 # NoCommit
    /\ master0.tree.files = origin_master.tree.files

\* C37: a sync run on a fast-forwarded repository whose upstream index has
\* not changed schedules no archive download: nothing is attempted, no
\* request is sent and the archives stay as they were, an archive that is
\* missing after a failed download included.
C37_NoRetryWithoutIndexChange ==
    LaterRunUnchangedUpstream
        => /\ scheduled = {}
           /\ queue = {}
           /\ attempted = {}
           /\ net_fetches = 0
           /\ crates = crates0

C37_Witness ==
    /\ LaterRunUnchangedUpstream
    /\ SyncEnded
    /\ \E e \in AllEntries(origin_master.tree) :
         /\ crates[file_path(e.name, e.vers)] = NoFile
         /\ e \notin attempted

\* The cleanup step of sync.
CleanupStep == ru_pc = "channel" /\ step > Len(Plan) /\ ru_pc' = "idle"

\* The files on disk of the newest generation of the history of `channel`.
NewestGenerationOnDisk(channel) ==
    IF get_channel_history(history, channel) = NoHistory THEN {}
    ELSE PathsUnder(history[channel],
                    latest_dates_from_channel_history(history[channel], 1))
           \cap dist

\* The main channels whose sync succeeded in the run that is ending.
SyncedChannels ==
    {c \in {MainChannels[i] : i \in 1..3} :
        keep[c] # 0 /\ c \notin failed_channels}

\* C38: the cleanup step deletes no file of the newest generation of a
\* main channel whose sync succeeded in the same run, whatever retention
\* counts are set or absent.
C38_NewestGenerationSurvives ==
    [][ CleanupStep =>
          \A c \in SyncedChannels : NewestGenerationOnDisk(c) \subseteq dist'
      ]_vars

\* What the code does: the newest generation survives for the channels that
\* have a retention count; a channel without one contributes nothing to
\* files_to_keep.
CountedChannelsSurvive ==
    [][ CleanupStep =>
          \A c \in SyncedChannels :
              keep[c] # NoKeep => NewestGenerationOnDisk(c) \subseteq dist'
      ]_vars

\* A cleanup has deleted the archive of the stable channel synced in the
\* same run, stable having no retention count.
UncountedChannelCleaned ==
    /\ ru_pc = "idle"
    /\ cleaned = "Ok"
    /\ keep["stable"] = NoKeep
    /\ "stable" \notin failed_channels
    /\ get_channel_history(history, "stable") # NoHistory
    /\ \E g \in history["stable"].versions :
         \E t \in g.files : /\ split_slash(t) \in dist0
                            /\ split_slash(t) \notin dist

\* A call of sync_rustup_channel that returned at the manifest: its
\* download failed or the document fetched was no manifest.
ManifestStepFailed ==
    /\ ru_pc = "channel"
    /\ requested' # requested \/ manifests' # manifests \/ ch_res' # ch_res
          \/ faults' # faults \/ history0' # history0
    /\ ru_pc' # "targets"
    /\ ch_res'.kind \in {"Download", "NotFound", "MismatchedHash", "Parse"}

\* C39: when the download of a channel manifest fails or the manifest does
\* not parse, dist/channel-rust-<channel>.toml and its .sha256 are what
\* they were, no artifact download is started and no history file is
\* changed.
C39_FailedManifestLeavesCanonical ==
    [][ ManifestStepFailed =>
          /\ \A c \in AllChannels :
                /\ ReadFile(manifests', channel_path(c))
                     = ReadFile(manifests, channel_path(c))
                /\ ReadFile(manifests', append_to_path(channel_path(c), ".sha256"))
                     = ReadFile(manifests, append_to_path(channel_path(c), ".sha256"))
          /\ tasks' = {}
          /\ dist' = dist
          /\ history' = history
      ]_vars

\* A fetched document that was no manifest has been refused on the second
\* day while the manifest of the first day is in place.
C39_Witness ==
    /\ ch_res.kind = "Parse"
    /\ today = 2
    /\ \E c \in {"stable", "beta", "nightly"} :
         /\ requested.channel = c
         /\ ReadFile(manifests, channel_path(c)) = ManifestToml(FirstDate)
         /\ ReadFile(manifests, append_to_path(channel_path(c), ".sha256"))
              = Sha256File(ManifestToml(FirstDate))

\* ------------------------------------------------ properties: batch phases
\* C31: in each batch phase the tasks in flight are at most the
\* download_threads of its section.
C31_InFlightWithinThreads ==
    batch.phase # "none"
        => Cardinality(batch.in_flight) <= batch.download_threads

\* What the code does: the pool of the package phase has download_threads
\* threads, the two streams of rustup.rs run up to eight tasks whatever
\* download_threads is.
InFlightWithinCodeLimit ==
    batch.phase # "none"
        => Cardinality(batch.in_flight)
             <= InFlightLimit(batch.phase, batch.download_threads)

StreamExceedsThreads ==
    /\ batch.phase \in {"init", "channel"}
    /\ Cardinality(batch.in_flight) > batch.download_threads

\* C32: no two tasks in flight in one batch phase write to the same
\* destination path, the installer phase with the default platform lists
\* included.
C32_DistinctDestinations ==
    \A t1, t2 \in batch.in_flight : t1 # t2 => t1.dest # t2.dest

\* The other two phases keep their destinations apart.
DistinctOutsideInit ==
    batch.phase \in {"crates", "channel"}
        => \A t1, t2 \in batch.in_flight : t1 # t2 => t1.dest # t2.dest

\* ------------------------------------------------- properties: git gateway
\* C40: every request the gateway has begun to forward gets a response.
C40_EveryRequestAnswered ==
    (gateway.pc = "forwarding") ~> (gateway.pc = "responded")

\* What the code does: the handler holds the subprocess's stdin open while
\* it waits for the headers.
StdinOpenWhileWaiting == gateway.pc = "headers" => gateway.git_input

\* The handler waits for a header line of a subprocess that waits for the
\* end of its input.
HandlerAndCgiWait ==
    /\ gateway.pc = "headers"
    /\ gateway.git_input
    /\ gateway.cgi = "reading"
    /\ gateway.to_eof
    /\ gateway.stdin = 0
    /\ gateway.stdout = <<>>

\* A request to a subprocess that does not wait for the end of its input
\* is answered.
EagerCgiAnswered ==
    (gateway.pc = "forwarding" /\ ~gateway.to_eof) ~> (gateway.pc = "responded")

====
